---- MODULE Spec2Model ----
(***************************************************************************)
(* Award availability matching engine (axispoints-to-itinerary).           *)
(*                                                                         *)
(* These parts of the repository are modelled, each with its own           *)
(* specification over its own variables (the other parts stay idle):       *)
(*   SpecPick    - pickBestTrip, the itinerary selector                    *)
(*   SpecSummary - generateTripSummary / generateTripSummaryWithDuration,  *)
(*                 the summary caches and their in-flight maps             *)
(*   SpecFlowA   - processFlowA, the single-direction search               *)
(*   SpecPairs   - the date-pair handler of /api/seats/date-pairs          *)
(*   SpecConvert - the conversions between points and partner miles        *)
(*   SpecMatch   - the date-pair matcher run again on the same input       *)
(*   SpecSample  - the choice of durations from the available ones         *)
(*   SpecGroup   - processFlowA's grouping of options by destination       *)
(*   SpecDates   - the browser side: handleSeeExactDates and the effects   *)
(*                 of DatePairsModal                                       *)
(*                                                                         *)
(* JavaScript values that may be a number, a string or absent are encoded  *)
(* as records: Num(n), Str(s), Undef, JsNull.                              *)
(***************************************************************************)
EXTENDS Integers, Sequences, FiniteSets, TLC

VARIABLES
    \* pickBestTrip
    pbPc, pbTrips, pbCabin, pbResult,
    \* summary caches
    hasClient, summaryCache, summaryInFlight, tasks, calls, upstreamCalls,
    \* processFlowA
    faPc, faBody, faResolved, faResults, faPartnerMiles, faOptions, faStatus,
    faError, faDetail, faCalls, faDegraded,
    \* date-pair handler
    dpPc, dpQuery, budgetMiles, outboundResults, returnResults,
    dpPairs, dpStatus, dpMessage, dpDetail, dpCalls, dpTrips, dpCards,
    \* budget conversion
    cvPc, cvPoints, cvCost, cvCard, cvMiles, cvRequired,
    \* repeated runs of the date-pair matcher
    mtPc, mtQuery, mtOutbound, mtReturns, mtRuns,
    \* the duration sampling on its own
    smPc, smDurations, smSelected,
    \* the grouping of options by destination on its own
    gpPc, gpMapped, gpOptions,
    \* ItineraryGenerator's date-pairs state and the DatePairsModal it renders
    uiOpen, uiDest, uiCards, uiError, uiLoading, uiReqs,
    msCurrent, msSummaries, msFetches, msIssued

vars ==
    <<pbPc, pbTrips, pbCabin, pbResult, hasClient, summaryCache,
      summaryInFlight, tasks, calls, upstreamCalls, faPc, faBody,
      faResolved, faResults, faPartnerMiles, faOptions, faStatus, faError,
      faDetail, faCalls, faDegraded, dpPc, dpQuery, budgetMiles,
      outboundResults, returnResults, dpPairs, dpStatus, dpMessage,
      dpDetail, dpCalls, dpTrips, dpCards, cvPc, cvPoints, cvCost, cvCard,
      cvMiles, cvRequired, mtPc, mtQuery, mtOutbound, mtReturns, mtRuns,
      smPc, smDurations, smSelected, gpPc, gpMapped, gpOptions,
      uiOpen, uiDest, uiCards, uiError, uiLoading, uiReqs,
      msCurrent, msSummaries, msFetches, msIssued>>

\* each part leaves the variables of the other parts alone
Frame(own) ==
    /\ own = "pick" \/ UNCHANGED <<pbPc, pbTrips, pbCabin, pbResult>>
    /\ own = "summary" \/ UNCHANGED <<hasClient, summaryCache, summaryInFlight, tasks, calls,
          upstreamCalls>>
    /\ own = "flowa" \/ UNCHANGED <<faPc, faBody, faResolved, faResults, faPartnerMiles, faOptions,
          faStatus, faError, faDetail, faCalls, faDegraded>>
    /\ own = "pairs" \/ UNCHANGED <<dpPc, dpQuery, budgetMiles, outboundResults, returnResults, dpPairs,
          dpStatus, dpMessage, dpDetail, dpCalls, dpTrips, dpCards>>
    /\ own = "convert" \/ UNCHANGED <<cvPc, cvPoints, cvCost, cvCard, cvMiles, cvRequired>>
    /\ own = "match" \/ UNCHANGED <<mtPc, mtQuery, mtOutbound, mtReturns, mtRuns>>
    /\ own = "sample" \/ UNCHANGED <<smPc, smDurations, smSelected>>
    /\ own = "group" \/ UNCHANGED <<gpPc, gpMapped, gpOptions>>
    /\ own = "dates" \/ UNCHANGED <<uiOpen, uiDest, uiCards, uiError, uiLoading, uiReqs,
          msCurrent, msSummaries, msFetches, msIssued>>

----------------------------------------------------------------------------
(* JavaScript values *)

Num(n) == [num |-> n]
Str(s) == [str |-> s]
Undef == [undef |-> TRUE]
JsNull == [null |-> TRUE]
NaN == [nan |-> TRUE]

\* typeof x === 'number' (NaN is a number as well)
IsNumber(x) == "num" \in DOMAIN x \/ "nan" \in DOMAIN x

\* String.prototype.toLowerCase over the labels the model uses
ToLowerCase(s) ==
    CASE s = "Economy" -> "economy"
      [] s = "ECONOMY" -> "economy"
      [] s = "Business" -> "business"
      [] s = "United" -> "united"
      [] s = "AEROPLAN" -> "aeroplan"
      [] OTHER -> s

\* Array.prototype.filter: the elements of s whose position is flagged in
\* keep, the callback's answers by position, in order
SelectIdx(s, keep) ==
    LET F[i \in 0..Len(s)] ==
            IF i = 0 THEN <<>>
            ELSE IF keep[i] THEN Append(F[i-1], s[i]) ELSE F[i-1]
    IN F[Len(s)]

\* Array.prototype.sort with a comparator, cmp[i, j] being the comparator's
\* answer for the elements at the positions i and j: the sort is stable, so
\* an element goes after the already sorted ones that do not compare greater
StableSort(s, cmp) ==
    LET Insert(x, sorted) ==
            LET k == Cardinality({i \in 1..Len(sorted) : cmp[sorted[i], x] <= 0})
            IN SubSeq(sorted, 1, k) \o <<x>> \o SubSeq(sorted, k + 1, Len(sorted))
        F[i \in 0..Len(s)] == IF i = 0 THEN <<>> ELSE Insert(i, F[i-1])
    IN [k \in 1..Len(s) |-> s[F[Len(s)][k]]]

\* the concatenation of a sequence of sequences
Flatten(ss) ==
    LET F[i \in 0..Len(ss)] == IF i = 0 THEN <<>> ELSE F[i-1] \o ss[i]
    IN F[Len(ss)]

SeqsUpTo(S, n) == UNION {[1..k -> S] : k \in 0..n}

Range(s) == {s[i] : i \in 1..Len(s)}

----------------------------------------------------------------------------
(* pickBestTrip (api/seats/date-pairs and server/seatsHandlers.js) *)

MaxTrips == 3

StopsSentinel == 999
DurationSentinel == 99999

\* t?.Cabin || '' : an absent label and the empty label are both ""
Trips ==
    [Cabin : {"Economy", "business"}, Stops : {Num(0), Num(1), Undef},
     TotalDuration : {Num(60), Num(90), Undef}]
    \cup {[Cabin |-> "", Stops |-> Num(0), TotalDuration |-> Num(60)]}

stopsOf(t) == IF IsNumber(t.Stops) THEN t.Stops.num ELSE StopsSentinel
durOf(t) == IF IsNumber(t.TotalDuration) THEN t.TotalDuration.num ELSE DurationSentinel

\* the comparator handed to matching.sort
TripCompareNoDuration(a, b) == stopsOf(a) - stopsOf(b)
TripCompare(a, b) ==
    IF stopsOf(a) # stopsOf(b) THEN stopsOf(a) - stopsOf(b)
    ELSE durOf(a) - durOf(b)

SortTrips(s) == StableSort(s, [i, j \in 1..Len(s) |-> TripCompare(s[i], s[j])])

CabinMatches(t, cabin) == ToLowerCase(t.Cabin) = ToLowerCase(cabin)

\* a selector that falls back to the first listed trip of any cabin
pickBestTripAnyCabin(trips, cabin) ==
    LET matching == SelectIdx(trips, [i \in 1..Len(trips) |-> CabinMatches(trips[i], cabin)])
    IN IF Len(matching) > 0 THEN SortTrips(matching)[1]
       ELSE IF Len(trips) > 0 THEN trips[1] ELSE JsNull

\* null, or the first element of the sorted cabin-matching candidates
pickBestTrip(trips, cabin) ==
    LET matching == SelectIdx(trips, [i \in 1..Len(trips) |-> CabinMatches(trips[i], cabin)])
    IN IF Len(matching) = 0 THEN JsNull ELSE SortTrips(matching)[1]

InitPick ==
    /\ pbPc = "input"
    /\ pbTrips = <<>>
    /\ pbCabin \in {"economy", "business"}
    /\ pbResult = JsNull

\* the Trip-Detail Provider's list grows by one candidate
TripListed ==
    /\ pbPc = "input"
    /\ Len(pbTrips) < MaxTrips
    /\ \E t \in Trips : pbTrips' = Append(pbTrips, t)
    /\ UNCHANGED <<pbPc, pbCabin, pbResult>>
    /\ Frame("pick")

PickBest ==
    /\ pbPc = "input"
    /\ pbResult' = pickBestTrip(pbTrips, pbCabin)
    /\ pbPc' = "done"
    /\ UNCHANGED <<pbTrips, pbCabin>>
    /\ Frame("pick")

NextPick ==
    \/ TripListed
    \/ PickBest

----------------------------------------------------------------------------
(* generateTripSummary / generateTripSummaryWithDuration (flowAHandler.js) *)

MaxCalls == 3

DEFAULT_SUMMARY == "Explore the city at your own pace"
Absent == "absent"

\* destinationName || 'unknown'
SummaryKey(destinationName) ==
    [fn |-> "summary",
     dest |-> IF destinationName = "" THEN "unknown" ELSE destinationName,
     nights |-> 0]

\* `${destinationName || 'unknown'}:${nights || 3}` (nights 0 stands for a
\* falsy nights argument)
DurationKey(destinationName, nights) ==
    [fn |-> "duration",
     dest |-> IF destinationName = "" THEN "unknown" ELSE destinationName,
     nights |-> IF nights = 0 THEN 3 ELSE nights]

\* the arguments of the calls the model makes
SummaryArgs ==
    {[fn |-> "summary", dest |-> "BKK", nights |-> 0],
     [fn |-> "summary", dest |-> "", nights |-> 0],
     [fn |-> "duration", dest |-> "BKK", nights |-> 0],
     [fn |-> "duration", dest |-> "BKK", nights |-> 3],
     [fn |-> "duration", dest |-> "BKK", nights |-> 5]}

KeyOf(a) ==
    IF a.fn = "summary" THEN SummaryKey(a.dest) ELSE DurationKey(a.dest, a.nights)

CacheKeys == {KeyOf(a) : a \in SummaryArgs}

\* a cache test that never finds the key
CacheHasNever(key) == FALSE

\* summaryCache.has(key) / summaryInFlight.has(key), per function's own maps
CacheHas(key) == summaryCache[key] # Absent
NoInFlightCheck(key) == FALSE
InFlightHas(key) == summaryInFlight[key] # 0

\* the value the task resolves to for an upstream outcome (never rejects)
TaskValue(outcome) ==
    IF outcome \in {"empty", "error"} THEN DEFAULT_SUMMARY ELSE outcome

InitSummary ==
    /\ hasClient \in BOOLEAN
    /\ summaryCache = [k \in CacheKeys |-> Absent]
    /\ summaryInFlight = [k \in CacheKeys |-> 0]
    /\ tasks = <<>>
    /\ calls = <<>>
    /\ upstreamCalls = [k \in CacheKeys |-> 0]

\* The synchronous part of one call, up to its first await:
\* cache hit, in-flight hit, or a new task (whose body runs up to the
\* upstream call) that is installed as the in-flight marker.
CallSummary(a) ==
    LET key == KeyOf(a)
        id == Len(tasks) + 1
    IN
    /\ Len(calls) < MaxCalls
    /\ IF CacheHas(key)
       THEN /\ calls' = Append(calls, [key |-> key, task |-> 0, owner |-> FALSE,
                                       state |-> "done", result |-> summaryCache[key],
                                       issued |-> FALSE])
            /\ UNCHANGED <<summaryInFlight, tasks, upstreamCalls>>
       ELSE IF InFlightHas(key)
       THEN /\ calls' = Append(calls, [key |-> key, task |-> summaryInFlight[key],
                                       owner |-> FALSE, state |-> "awaiting",
                                       result |-> Absent, issued |-> FALSE])
            /\ UNCHANGED <<summaryInFlight, tasks, upstreamCalls>>
       ELSE /\ tasks' = Append(tasks,
                 IF hasClient
                 THEN [key |-> key, status |-> "pending", value |-> Absent,
                       failed |-> FALSE, settled |-> FALSE]
                 ELSE [key |-> key, status |-> "resolved", value |-> DEFAULT_SUMMARY,
                       failed |-> FALSE, settled |-> FALSE])
            /\ upstreamCalls' =
                 IF hasClient
                 THEN [upstreamCalls EXCEPT ![key] = @ + 1]
                 ELSE upstreamCalls
            /\ summaryInFlight' = [summaryInFlight EXCEPT ![key] = id]
            /\ calls' = Append(calls, [key |-> key, task |-> id, owner |-> TRUE,
                                       state |-> "awaiting", result |-> Absent,
                                       issued |-> hasClient])
    /\ UNCHANGED <<hasClient, summaryCache>>
    /\ Frame("summary")

\* client.chat.completions.create settles and the task's body runs to its end
UpstreamReply(t, outcome) ==
    /\ t \in 1..Len(tasks)
    /\ tasks[t].status = "pending"
    /\ tasks' = [tasks EXCEPT ![t] = [@ EXCEPT !.status = "resolved",
                                               !.value = TaskValue(outcome),
                                               !.failed = (outcome = "error")]]
    /\ UNCHANGED <<hasClient, summaryCache, summaryInFlight, calls, upstreamCalls>>
    /\ Frame("summary")

\* The first caller resumes after `await task`: it stores the result and,
\* in its finally, removes the in-flight marker.
OwnerResumes(c) ==
    /\ c \in 1..Len(calls)
    /\ calls[c].state = "awaiting"
    /\ calls[c].owner
    /\ tasks[calls[c].task].status = "resolved"
    /\ summaryCache' = [summaryCache EXCEPT ![calls[c].key] = tasks[calls[c].task].value]
    /\ summaryInFlight' = [summaryInFlight EXCEPT ![calls[c].key] = 0]
    /\ tasks' = [tasks EXCEPT ![calls[c].task].settled = TRUE]
    /\ calls' = [calls EXCEPT ![c].state = "done",
                              ![c].result = tasks[calls[c].task].value]
    /\ UNCHANGED <<hasClient, upstreamCalls>>
    /\ Frame("summary")

\* A caller that was handed the in-flight promise gets its value; the first
\* caller's reaction was registered on the task before any other.
WaiterResumes(c) ==
    /\ c \in 1..Len(calls)
    /\ calls[c].state = "awaiting"
    /\ ~calls[c].owner
    /\ tasks[calls[c].task].status = "resolved"
    /\ tasks[calls[c].task].settled
    /\ calls' = [calls EXCEPT ![c].state = "done",
                              ![c].result = tasks[calls[c].task].value]
    /\ UNCHANGED <<hasClient, summaryCache, summaryInFlight, tasks, upstreamCalls>>
    /\ Frame("summary")

NextSummary ==
    \/ \E a \in SummaryArgs : CallSummary(a)
    \* what the upstream LLM call can end in: a parsed list of bullets, a parsed
    \* reply without bullets, or a rejection / unparseable reply (the catch)
    \/ \E t \in 1..Len(tasks), o \in {"S1", "S2", "empty", "error"} : UpstreamReply(t, o)
    \/ \E c \in 1..Len(calls) : OwnerResumes(c)
    \/ \E c \in 1..Len(calls) : WaiterResumes(c)

----------------------------------------------------------------------------
(* processFlowA (server/flowAHandler.js) *)

MaxFlowRecords == 2

OptionCap == 10

\* CARD_MULTIPLIER, each multiplier as the exact fraction <<numerator, denominator>>
CARD_MULTIPLIER ==
    [c \in {"Burgundy Private Credit Card", "Magnus for Burgundy Credit Card"} |-> <<4, 5>>]
    @@ [c \in {"Magnus Credit Card (Standard)", "Reserve Credit Card"} |-> <<2, 5>>]
    @@ [c \in {"Select Credit Card", "Privilege Credit Card",
               "Axis Bank Rewards Credit Card"} |-> <<1, 10>>]
    @@ [c \in {"Privilege Easy Credit Card", "Axis Bank IndianOil Credit Card (regular)",
               "IndianOil Easy Axis Bank Credit Card", "Axis Bank My Zone Credit Card",
               "Axis Bank My Zone Easy Credit Card", "Axis Bank Signature Credit Card",
               "Axis Bank Titanium Smart Traveller Credit Card",
               "Axis Bank Pride Platinum Credit Card",
               "Axis Bank Pride Signature Credit Card"} |-> <<1, 20>>]

PROGRAM_CAPABILITY ==
    [united |-> [level |-> "LIVE_RELIABLE", name |-> "United MileagePlus", disclaimer |-> ""],
     aeroplan |-> [level |-> "LIVE_RELIABLE", name |-> "Air Canada Aeroplan", disclaimer |-> ""],
     singapore |-> [level |-> "LIMITED_RELIABLE", name |-> "Singapore KrisFlyer",
                    disclaimer |-> "Saver-level availability only; results may be incomplete"],
     flyingblue |-> [level |-> "LIMITED_RELIABLE", name |-> "Air France-KLM Flying Blue",
                     disclaimer |-> "Saver-level availability only; results may be incomplete"]]

ORIGIN_CODE ==
    [Delhi |-> "DEL", Mumbai |-> "BOM", Bengaluru |-> "BLR", Hyderabad |-> "HYD",
     Chennai |-> "MAA"]

\* cabinToCode: "" stands for null
cabinToCode(cabin) ==
    CASE cabin = "Economy" -> "Y"
      [] cabin = "Business" -> "J"
      [] cabin = "Premium Economy" -> "W"
      [] cabin = "First" -> "F"
      [] OTHER -> ""

\* monthToDateRange over the travelMonth strings the model uses: the first
\* and last day of the month of a parseable date, a 400 otherwise
monthToDateRange(input) ==
    CASE input = "2026-02" -> [ok |-> TRUE, start_date |-> "2026-02-01", end_date |-> "2026-02-28"]
      [] input = "2026-03-15" -> [ok |-> TRUE, start_date |-> "2026-03-01", end_date |-> "2026-03-31"]
      [] OTHER -> [ok |-> FALSE, start_date |-> "", end_date |-> ""]

\* Number(x): a number is itself, a numeric string its value, null is 0,
\* undefined and any other string are NaN
ToNumber(x) ==
    CASE "num" \in DOMAIN x -> x
      [] "str" \in DOMAIN x ->
            (CASE x.str = "2" -> Num(2)
               [] x.str = "12" -> Num(12)
               [] x.str = "" -> Num(0)
               [] OTHER -> NaN)
      [] "null" \in DOMAIN x -> Num(0)
      [] OTHER -> NaN

IsFinite(x) == "num" \in DOMAIN x

\* CARD_MULTIPLIER[cardDisplayName] ?? 0
MultiplierAlwaysKnown(card) ==
    IF card \in DOMAIN CARD_MULTIPLIER THEN CARD_MULTIPLIER[card] ELSE <<1, 10>>
Multiplier(card) ==
    IF card \in DOMAIN CARD_MULTIPLIER THEN CARD_MULTIPLIER[card] ELSE <<0, 1>>

\* a budget that rounds the partner miles up
PartnerMilesCeil(edgePoints, card) ==
    LET p == ToNumber(edgePoints)
        m == Multiplier(card)
    IN IF IsFinite(p) THEN Num(-((-(p.num * m[1])) \div m[2])) ELSE NaN

\* Math.floor(Number(edgePoints) * multiplier); NaN stays NaN
PartnerMiles(edgePoints, card) ==
    LET p == ToNumber(edgePoints)
        m == Multiplier(card)
    IN IF IsFinite(p) THEN Num((p.num * m[1]) \div m[2]) ELSE NaN

\* a conversion that rounds the required points down
EdgePointsRequiredFloor(allowedMiles, card) ==
    LET m == IF Multiplier(card)[1] = 0 THEN <<1, 1>> ELSE Multiplier(card)
    IN (allowedMiles * m[2]) \div m[1]

\* Math.ceil(allowedMiles / (CARD_MULTIPLIER[cardDisplayName] || 1))
EdgePointsRequired(allowedMiles, card) ==
    LET m == IF Multiplier(card)[1] = 0 THEN <<1, 1>> ELSE Multiplier(card)
    IN -((-(allowedMiles * m[2])) \div m[1])

\* Boolean flags of a record are the JavaScript values true, false, a truthy
\* value that is not true (1, "true"), and undefined; `=== true` holds of
\* the first alone
JsTrue == "true"

BaseRecord ==
    [Source |-> "united",
     YAvailableRaw |-> "true", YMileageCostRaw |-> Num(2),
     JAvailableRaw |-> "true", JMileageCostRaw |-> Num(4),
     destination_airport |-> "", DestinationAirport |-> "",
     Route |-> [DestinationAirport |-> "BKK"],
     stops |-> Undef, YDirectRaw |-> "false", JDirectRaw |-> "false"]

\* The upstream records the model draws from: BaseRecord with its source,
\* its availability flags, its costs, or its destination and stops varied.
FlowRecords ==
    {[BaseRecord EXCEPT !.Source = src] : src \in {"united", "United", "delta", ""}}
    \cup {[BaseRecord EXCEPT !.YAvailableRaw = f, !.JAvailableRaw = f] :
             f \in {"false", "truthy", "undefined"}}
    \cup {[BaseRecord EXCEPT !.YMileageCostRaw = c, !.JMileageCostRaw = c] :
             c \in {Num(5), Num(0), Str("2"), Str("abc"), Undef}}
    \cup {[BaseRecord EXCEPT !.JAvailableRaw = "false"],
          [BaseRecord EXCEPT !.YAvailableRaw = "false"],
          [BaseRecord EXCEPT !.stops = Num(1), !.YMileageCostRaw = Num(1),
                             !.JMileageCostRaw = Num(1)],
          [BaseRecord EXCEPT !.stops = Num(0)],
          [BaseRecord EXCEPT !.YDirectRaw = "true", !.JDirectRaw = "true"],
          [BaseRecord EXCEPT !.Route = [DestinationAirport |-> "DMK"]],
          [BaseRecord EXCEPT !.Route = Str("DEL-DMK"), !.YMileageCostRaw = Num(1)],
          [BaseRecord EXCEPT !.Route = Undef],
          [BaseRecord EXCEPT !.destination_airport = "DMK", !.stops = Num(0)]}

BaseBody ==
    [edgePoints |-> Num(12), origin |-> "Delhi", destination |-> "Bangkok",
     travelMonth |-> "2026-02", cabin |-> "Economy",
     cardDisplayName |-> "Magnus Credit Card (Standard)", onlyDirect |-> FALSE]

\* request bodies: "" stands for a missing string field, Undef for a missing edgePoints
FlowBodies ==
    {BaseBody,
     [BaseBody EXCEPT !.edgePoints = Num(7)],
     [BaseBody EXCEPT !.cabin = "Business"],
     [BaseBody EXCEPT !.cardDisplayName = "Atlas Credit Card"],
     [BaseBody EXCEPT !.edgePoints = Num(7), !.cabin = "Business",
                      !.cardDisplayName = "Atlas Credit Card"],
     [BaseBody EXCEPT !.edgePoints = Str("12"), !.travelMonth = "2026-03-15",
                      !.cabin = "Premium Economy", !.destination = " Bangkok "]}
    \cup {[BaseBody EXCEPT !.edgePoints = Undef],
          [BaseBody EXCEPT !.destination = ""],
          [BaseBody EXCEPT !.cardDisplayName = ""],
          [BaseBody EXCEPT !.travelMonth = "next spring"],
          [BaseBody EXCEPT !.cabin = "Suite"]}

\* String.prototype.trim over the destinations the model uses
Trim(s) == IF s = " Bangkok " THEN "Bangkok" ELSE s

\* fallbackResolution: the trimmed input as the only airport, no city
fallbackResolutionUntrimmed(raw) == <<[iata |-> raw, city |-> ""]>>
fallbackResolution(raw) == <<[iata |-> Trim(raw), city |-> ""]>>

\* how the resolver's model call ends: airports, no API key, a rejected
\* call, an empty output, output that is not the expected JSON
ResolverOutcomes == {"airports", "noClient", "error", "empty", "malformed"}

\* resolveLocation: it resolves with the model's airports or, on every
\* failure, with the fallback
resolveLocation(rawDestination, outcome) ==
    IF rawDestination = "" THEN fallbackResolution(rawDestination)
    ELSE IF outcome = "airports"
    THEN <<[iata |-> "BKK", city |-> "Bangkok"], [iata |-> "DMK", city |-> "Bangkok"]>>
    ELSE fallbackResolution(rawDestination)

\* the errors of the Seats search: fetch rejects (502, the detail is the
\* error's message) or the answer has a non-success status (its body text)
FlowSearchErrors ==
    {[message |-> "Seats API fetch failed", status |-> 502, detail |-> "fetch failed"],
     [message |-> "Seats API error", status |-> 429, detail |-> "quota exceeded"]}

\* the message and detail of the validation error processFlowA throws
ValidationError(body) ==
    IF body.edgePoints = Undef \/ body.origin = "" \/ body.destination = ""
       \/ body.travelMonth = "" \/ body.cabin = "" \/ body.cardDisplayName = ""
    THEN [message |-> "Missing required fields", detail |-> ""]
    ELSE IF ~monthToDateRange(body.travelMonth).ok
    THEN [message |-> "Invalid travelMonth format", detail |-> ""]
    ELSE [message |-> "Invalid cabin",
          detail |-> "Cabin must be Economy, Business, Premium Economy, or First"]

NoFlowCalls == [resolver |-> 0, search |-> 0, summary |-> 0]
NotDegraded == [resolver |-> FALSE, summary |-> FALSE]

MissingRequiredFields(body) ==
    \/ body.edgePoints = Undef
    \/ body.origin = ""
    \/ body.destination = ""
    \/ body.travelMonth = ""
    \/ body.cabin = ""
    \/ body.cardDisplayName = ""

\* a validation that leaves the cabin label unchecked
ValidationStatusNoCabin(body) ==
    IF MissingRequiredFields(body) THEN 400
    ELSE IF ~monthToDateRange(body.travelMonth).ok THEN 400
    ELSE 0

\* the status of the validation error processFlowA throws, 0 when it throws none
ValidationStatus(body) ==
    IF MissingRequiredFields(body) THEN 400
    ELSE IF ~monthToDateRange(body.travelMonth).ok THEN 400
    ELSE IF cabinToCode(body.cabin) = "" THEN 400
    ELSE 0

\* (r?.Source || '').toLowerCase() looked up in PROGRAM_CAPABILITY, and the
\* filter on the capability's level
KnownSource(r) ==
    LET src == ToLowerCase(r.Source)
    IN /\ src \in DOMAIN PROGRAM_CAPABILITY
       /\ PROGRAM_CAPABILITY[src].level \in {"LIVE_RELIABLE", "LIMITED_RELIABLE"}

\* the destination chain of the mapping; "" stands for null
DestOf(r) ==
    IF r.destination_airport # "" THEN r.destination_airport
    ELSE IF r.DestinationAirport # "" THEN r.DestinationAirport
    ELSE IF r.Route = Str("DEL-DMK") THEN "DMK"
    ELSE IF "DestinationAirport" \in DOMAIN r.Route THEN r.Route.DestinationAirport
    ELSE ""

\* typeof r.stops === 'number' ? r.stops : direct flag === true ? 0 : null
StopsOf(r, isBusiness) ==
    IF IsNumber(r.stops) THEN r.stops
    ELSE IF (IF isBusiness THEN r.JDirectRaw ELSE r.YDirectRaw) = JsTrue THEN Num(0)
    ELSE JsNull

\* Number.isFinite(cabinMiles) ? cabinMiles : 0
AllowedMiles(rawMiles) ==
    LET cabinMiles == IF "num" \in DOMAIN rawMiles THEN rawMiles ELSE ToNumber(rawMiles)
    IN IF IsFinite(cabinMiles) THEN cabinMiles.num ELSE 0

\* avail === true && allowedMiles > 0 && allowedMiles <= partnerMiles
WithinBudgetTruthy(avail, allowedMiles, partnerMiles) ==
    /\ avail \in {"true", "truthy"}
    /\ allowedMiles > 0
    /\ IsFinite(partnerMiles) /\ allowedMiles <= partnerMiles.num
WithinBudgetNoCap(avail, allowedMiles, partnerMiles) ==
    /\ avail = JsTrue
    /\ allowedMiles > 0
WithinBudget(avail, allowedMiles, partnerMiles) ==
    /\ avail = JsTrue
    /\ allowedMiles > 0
    /\ IsFinite(partnerMiles) /\ allowedMiles <= partnerMiles.num

CityOf(resolved, dest) ==
    LET hits == SelectIdx(resolved, [i \in 1..Len(resolved) |-> resolved[i].iata = dest])
    IN IF Len(hits) > 0 THEN hits[1].city ELSE ""

\* avail: isBusiness ? r?.JAvailableRaw : r?.YAvailableRaw
AvailOf(r, cabin) ==
    IF cabinToCode(cabin) = "J" THEN r.JAvailableRaw ELSE r.YAvailableRaw

\* rawMiles: isBusiness ? r?.JMileageCostRaw : r?.YMileageCostRaw
RawMilesOf(r, cabin) ==
    IF cabinToCode(cabin) = "J" THEN r.JMileageCostRaw ELSE r.YMileageCostRaw

\* the second map of the chain: the option of a record, or null
MapRecord(r, body, resolved, partnerMiles) ==
    LET isBusiness == cabinToCode(body.cabin) = "J"
        avail == AvailOf(r, body.cabin)
        rawMiles == RawMilesOf(r, body.cabin)
        allowedMiles == AllowedMiles(rawMiles)
        capability == PROGRAM_CAPABILITY[ToLowerCase(r.Source)]
        dest == DestOf(r)
    IN IF ~WithinBudget(avail, allowedMiles, partnerMiles) THEN JsNull
       ELSE [origin |-> IF body.origin \in DOMAIN ORIGIN_CODE
                        THEN ORIGIN_CODE[body.origin] ELSE body.origin,
             destination |-> dest,
             destinationName |-> CityOf(resolved, dest),
             program |-> capability.name,
             programLevel |-> capability.level,
             disclaimer |-> capability.disclaimer,
             cabin |-> IF isBusiness THEN "Business" ELSE "Economy",
             mileageCost |-> allowedMiles,
             edgePointsRequired |-> EdgePointsRequired(allowedMiles, body.cardDisplayName),
             stops |-> StopsOf(r, isBusiness),
             tripSummary |-> <<>>]

\* results.map(...).filter(capability).map(...).filter(Boolean).sort(by points)
Mapped(results, body, resolved, partnerMiles) ==
    LET known == SelectIdx(results, [i \in 1..Len(results) |-> KnownSource(results[i])])
        items == [i \in 1..Len(known) |-> MapRecord(known[i], body, resolved, partnerMiles)]
        kept == SelectIdx(items, [i \in 1..Len(items) |-> items[i] # JsNull])
    IN StableSort(kept, [i, j \in 1..Len(kept) |->
                            kept[i].edgePointsRequired - kept[j].edgePointsRequired])

\* item.destinationName || item.destination || 'unknown'
DestKey(item) ==
    IF item.destinationName # "" THEN item.destinationName
    ELSE IF item.destination # "" THEN item.destination
    ELSE "unknown"

\* the keys of byDest in insertion order
DestKeys(mapped) ==
    LET F[i \in 0..Len(mapped)] ==
            IF i = 0 THEN <<>>
            ELSE IF DestKey(mapped[i]) \in Range(F[i-1]) THEN F[i-1]
            ELSE Append(F[i-1], DestKey(mapped[i]))
    IN F[Len(mapped)]

\* a grouping that keeps every option of the destination
DestGroupKeepAll(destKey, mapped) ==
    LET items == SelectIdx(mapped, [i \in 1..Len(mapped) |-> DestKey(mapped[i]) = destKey])
    IN [destKey |-> destKey, cheapestPoints |-> items[1].edgePointsRequired,
        items |-> items]

\* one destination's group: the cheapest, and the cheapest non-stop when the
\* cheapest has stops and a non-stop exists
DestGroup(destKey, mapped) ==
    LET items == SelectIdx(mapped, [i \in 1..Len(mapped) |-> DestKey(mapped[i]) = destKey])
        cheapest == items[1]
        nonstops == SelectIdx(items, [i \in 1..Len(items) |-> items[i].stops = Num(0)])
        selected == IF cheapest.stops = Num(0) THEN <<cheapest>>
                    ELSE IF Len(nonstops) > 0 THEN <<cheapest, nonstops[1]>>
                    ELSE <<cheapest>>
    IN [destKey |-> destKey, cheapestPoints |-> cheapest.edgePointsRequired,
        items |-> selected]

\* a flattening without the cap
DeduplicatedUncapped(mapped) ==
    LET keys == DestKeys(mapped)
        destGroups == [i \in 1..Len(keys) |-> DestGroup(keys[i], mapped)]
        sorted == StableSort(destGroups, [i, j \in 1..Len(destGroups) |->
                            destGroups[i].cheapestPoints - destGroups[j].cheapestPoints])
    IN Flatten([i \in 1..Len(sorted) |-> sorted[i].items])

\* the groups sorted by their cheapest option, flattened and capped
Deduplicated(mapped) ==
    LET keys == DestKeys(mapped)
        destGroups == [i \in 1..Len(keys) |-> DestGroup(keys[i], mapped)]
        sorted == StableSort(destGroups, [i, j \in 1..Len(destGroups) |->
                            destGroups[i].cheapestPoints - destGroups[j].cheapestPoints])
        flat == Flatten([i \in 1..Len(sorted) |-> sorted[i].items])
    IN SubSeq(flat, 1, IF Len(flat) < OptionCap THEN Len(flat) ELSE OptionCap)

InitFlowA ==
    /\ faPc = "idle"
    /\ faBody = BaseBody
    /\ faResolved = <<>>
    /\ faResults = <<>>
    /\ faPartnerMiles = Num(0)
    /\ faOptions = <<>>
    /\ faStatus = 0
    /\ faError = ""
    /\ faDetail = ""
    /\ faCalls = NoFlowCalls
    /\ faDegraded = NotDegraded

\* processFlowA up to `await resolveLocation(destination)`: the validation
\* errors, the budget conversion, the call of the resolver
FlowARequest(body) ==
    /\ faPc = "idle"
    /\ faBody' = body
    /\ IF ValidationStatus(body) # 0
       THEN /\ faPc' = "done"
            /\ faStatus' = ValidationStatus(body)
            /\ faError' = ValidationError(body).message
            /\ faDetail' = ValidationError(body).detail
            /\ UNCHANGED <<faPartnerMiles, faCalls>>
       ELSE /\ faPc' = "resolving"
            /\ faPartnerMiles' = PartnerMiles(body.edgePoints, body.cardDisplayName)
            /\ faCalls' = [faCalls EXCEPT !.resolver = 1]
            /\ UNCHANGED <<faStatus, faError, faDetail>>
    /\ UNCHANGED <<faResolved, faResults, faOptions, faDegraded>>
    /\ Frame("flowa")

\* resolveLocation resolves (it never rejects) and the Seats request is sent
FlowAResolved ==
    /\ faPc = "resolving"
    /\ \E outcome \in ResolverOutcomes :
          /\ faResolved' = resolveLocation(faBody.destination, outcome)
          /\ faDegraded' = [faDegraded EXCEPT !.resolver = (outcome # "airports")]
    /\ faCalls' = [faCalls EXCEPT !.search = 1]
    /\ faPc' = "fetching"
    /\ UNCHANGED <<faBody, faResults, faPartnerMiles, faOptions, faStatus, faError, faDetail>>
    /\ Frame("flowa")

\* fetch rejects (502) or answers with a non-success status: processFlowA
\* throws and the route answers with the error's status, message and detail
FlowAFetchFailed(err) ==
    /\ faPc = "fetching"
    /\ faPc' = "done"
    /\ faStatus' = err.status
    /\ faError' = err.message
    /\ faDetail' = err.detail
    /\ UNCHANGED <<faBody, faResolved, faResults, faPartnerMiles, faOptions,
                   faCalls, faDegraded>>
    /\ Frame("flowa")

\* the availability records arrive: mapping, budget filter, grouping by
\* destination and cap, up to the await of the summaries, one
\* generateTripSummary call per destination key
FlowAFetched ==
    /\ faPc = "fetching"
    /\ \E results \in SeqsUpTo(FlowRecords, MaxFlowRecords) :
          /\ faResults' = results
          /\ faOptions' = Deduplicated(Mapped(results, faBody, faResolved, faPartnerMiles))
    /\ faCalls' = [faCalls EXCEPT !.summary =
            Cardinality({SummaryKey(IF faOptions'[i].destinationName # ""
                                    THEN faOptions'[i].destinationName
                                    ELSE faOptions'[i].destination) :
                         i \in 1..Len(faOptions')})]
    /\ faPc' = "summaries"
    /\ UNCHANGED <<faBody, faResolved, faPartnerMiles, faStatus, faError, faDetail, faDegraded>>
    /\ Frame("flowa")

\* every option gets what generateTripSummary resolves with for its
\* destination key, the summary of that key or, when the generator fails (no
\* API key, a rejected call, unusable output), DEFAULT_SUMMARY; the request
\* succeeds
FlowARespond ==
    /\ faPc = "summaries"
    /\ \E failed \in {f \in BOOLEAN : f => Len(faOptions) > 0} :
          /\ faDegraded' = [faDegraded EXCEPT !.summary = failed]
          /\ faOptions' = [i \in 1..Len(faOptions) |->
                            [faOptions[i] EXCEPT !.tripSummary =
                                IF failed THEN <<DEFAULT_SUMMARY>>
                                ELSE <<SummaryKey(IF faOptions[i].destinationName # ""
                                                  THEN faOptions[i].destinationName
                                                  ELSE faOptions[i].destination)>>]]
    /\ faPc' = "done"
    /\ faStatus' = 200
    /\ UNCHANGED <<faBody, faResolved, faResults, faPartnerMiles, faError, faDetail, faCalls>>
    /\ Frame("flowa")

NextFlowA ==
    \/ \E body \in FlowBodies : FlowARequest(body)
    \/ FlowAResolved
    \/ \E err \in FlowSearchErrors : FlowAFetchFailed(err)
    \/ FlowAFetched
    \/ FlowARespond

----------------------------------------------------------------------------
(* GET /api/seats/date-pairs (api/seats/date-pairs.js) *)

MaxRecords == 3

DefaultMinNights == 3
DefaultMaxNights == 10
MaxDurations == 5

\* A calendar date of 2026 is <<month, day>>; "YYYY-MM-DD" strings of one
\* year compare as these tuples do. NoDate is a record without a Date.
NoDate == <<0, 0>>
MonthLen == <<31, 28, 31, 30, 31, 30, 31, 31, 30, 31, 30, 31>>
AllDates == {md \in (1..12) \X (1..31) : md[2] <= MonthLen[md[1]]}

\* the day of the year of every date, and the date of every day of the year
DayNumbers ==
    LET F[m \in 0..12] == IF m = 0 THEN 0 ELSE F[m-1] + MonthLen[m]
    IN [date \in AllDates |-> F[date[1] - 1] + date[2]]
DatesByDay == [n \in 1..365 |-> CHOOSE d \in AllDates : DayNumbers[d] = n]

DayOfYear(date) == DayNumbers[date]

\* dateA < dateB on the strings
DateLess(a, b) == a[1] < b[1] \/ (a[1] = b[1] /\ a[2] < b[2])

\* dateA.localeCompare(dateB)
DateCompare(a, b) == IF DateLess(a, b) THEN -1 ELSE IF DateLess(b, a) THEN 1 ELSE 0

\* addDays: UTC calendar arithmetic, rolling over the end of the month
addDays(dateStr, days) == DatesByDay[DayOfYear(dateStr) + days]

\* nightsBetween: the whole days from one UTC midnight to the other
nightsBetweenInclusive(startStr, endStr) == DayOfYear(endStr) - DayOfYear(startStr) + 1
nightsBetween(startStr, endStr) == DayOfYear(endStr) - DayOfYear(startStr)

\* parseInt(s, 10) || fallback, over the query strings the model uses;
\* Undef takes the parameter's default string
ParseIntOr(raw, fallback) ==
    LET n == CASE raw = Str("1") -> 1
               [] raw = Str("2") -> 2
               [] raw = Str("3") -> 3
               [] raw = Str("10") -> 10
               [] raw = Str("-1") -> -1
               [] raw = Str("0") -> 0
               [] OTHER -> 0      \* NaN: falsy like 0
    IN IF n = 0 THEN fallback ELSE n

Max(a, b) == IF a >= b THEN a ELSE b

minNOf(q) == Max(1, ParseIntOr(IF q.min_nights = Undef THEN Str("3") ELSE q.min_nights,
                               DefaultMinNights))
maxNOf(q) == Max(minNOf(q),
                 ParseIntOr(IF q.max_nights = Undef THEN Str("10") ELSE q.max_nights,
                            DefaultMaxNights))
preferEconomyOf(q) == ToLowerCase(q.cabin_pref) # "business"

\* the traveller's budget in partner miles: what Flow A converted the points
\* to. The date-pairs request carries no budget parameter.
TravellerBudget == PartnerMiles(Num(12), "Magnus Credit Card (Standard)").num


YOnly ==
    [YAvailable |-> "true", YAvailableRaw |-> "undefined", YMileageCostRaw |-> Num(2),
     JAvailable |-> "false", JAvailableRaw |-> "false", JMileageCostRaw |-> Num(0)]
JOnly ==
    [YAvailable |-> "false", YAvailableRaw |-> "false", YMileageCostRaw |-> Num(0),
     JAvailable |-> "undefined", JAvailableRaw |-> "true", JMileageCostRaw |-> Num(4)]
YOver == [YOnly EXCEPT !.YMileageCostRaw = Num(5)]
NoCabin == [YOnly EXCEPT !.YAvailable = "truthy"]

WithDate(kind, date) ==
    [Date |-> date,
     YAvailable |-> kind.YAvailable, YAvailableRaw |-> kind.YAvailableRaw,
     YMileageCostRaw |-> kind.YMileageCostRaw,
     JAvailable |-> kind.JAvailable, JAvailableRaw |-> kind.JAvailableRaw,
     JMileageCostRaw |-> kind.JMileageCostRaw]

\* the availability records either search can return
PairRecords ==
    {WithDate(k, d) : k \in {YOnly, JOnly}, d \in {<<2, 27>>, <<2, 28>>, <<3, 1>>}}
    \cup {WithDate(YOver, <<2, 27>>), WithDate(YOver, <<2, 28>>),
          WithDate(NoCabin, <<2, 27>>), WithDate(YOnly, NoDate)}

BaseQuery ==
    [method |-> "GET", origin_airport |-> "BLR", destination_airport |-> "BKK",
     start_date |-> "2026-02-01", end_date |-> "2026-02-28",
     min_nights |-> Str("1"), max_nights |-> Str("2"), cabin_pref |-> "economy"]

PairQueries ==
    {BaseQuery,
     [BaseQuery EXCEPT !.min_nights = Str("2"), !.max_nights = Str("1"),
                       !.cabin_pref = "Business"],
     [BaseQuery EXCEPT !.min_nights = Str("-1"), !.max_nights = Str("1")],
     [BaseQuery EXCEPT !.min_nights = Undef, !.max_nights = Str("abc")],
     [BaseQuery EXCEPT !.origin_airport = ""],
     [BaseQuery EXCEPT !.method = "POST"]}

\* getCabinAvailability
FlagSet(flag) == flag = JsTrue
getCabinAvailability(item) ==
    [economy |-> FlagSet(item.YAvailable) \/ FlagSet(item.YAvailableRaw),
     business |-> FlagSet(item.JAvailable) \/ FlagSet(item.JAvailableRaw)]

OtherCabin(cabin) == IF cabin = "economy" THEN "business" ELSE "economy"

\* the keys of returnByDate in insertion order
ReturnDateKeys(returns) ==
    LET F[i \in 0..Len(returns)] ==
            IF i = 0 THEN <<>>
            ELSE IF returns[i].Date = NoDate \/ returns[i].Date \in Range(F[i-1]) THEN F[i-1]
            ELSE Append(F[i-1], returns[i].Date)
    IN F[Len(returns)]

\* returnByDate.get(date)[cabin]
ReturnItems(returns, date, cabin) ==
    SelectIdx(returns, [i \in 1..Len(returns) |->
                returns[i].Date = date /\ getCabinAvailability(returns[i])[cabin]])

\* variant: a sort that is not stable, leaving records of one date in
\* arrival order on a first run and in the opposite order afterwards
sortedOutboundUnstable(outbound) ==
    LET arrived == IF Len(mtRuns) = 0 THEN outbound
                   ELSE [i \in 1..Len(outbound) |-> outbound[Len(outbound) + 1 - i]]
    IN StableSort(arrived, [i, j \in 1..Len(arrived) |->
                              DateCompare(arrived[i].Date, arrived[j].Date)])

\* [...outboundResults].sort by (Date || '')
sortedOutbound(outbound) ==
    StableSort(outbound, [i, j \in 1..Len(outbound) |->
                            DateCompare(outbound[i].Date, outbound[j].Date)])

\* the cabin chosen for an outbound record; "" stands for null
ChosenCabin(outItem, preferEconomy) ==
    LET outAvail == getCabinAvailability(outItem)
    IN IF preferEconomy
       THEN (IF outAvail.economy THEN "economy"
             ELSE IF outAvail.business THEN "business" ELSE "")
       ELSE (IF outAvail.business THEN "business"
             ELSE IF outAvail.economy THEN "economy" ELSE "")

\* The return record matched on one return date: the first of the chosen
\* cabin on that date, else the first of the other cabin on that date.
MatchOnDate(returns, rDate, chosenCabin) ==
    LET cabinItems == ReturnItems(returns, rDate, chosenCabin)
        fallbackItems == ReturnItems(returns, rDate, OtherCabin(chosenCabin))
    IN IF Len(cabinItems) > 0
       THEN [found |-> TRUE, matchedReturn |-> cabinItems[1], matchedCabin |-> chosenCabin]
       ELSE IF Len(fallbackItems) > 0
       THEN [found |-> TRUE, matchedReturn |-> fallbackItems[1],
             matchedCabin |-> OtherCabin(chosenCabin)]
       ELSE [found |-> FALSE]

\* rDateStr < earliestReturn || rDateStr > latestReturn
OutsideWindow(rDate, outDate, minN, maxN) ==
    \/ DateLess(rDate, addDays(outDate, minN))
    \/ DateLess(addDays(outDate, maxN), rDate)

\* the body of the inner loop for one outbound record and one return date:
\* the candidate pair pushed to pairsByDuration, or nothing
CandidateFor(outItem, rDate, returns, chosenCabin, minN, maxN) ==
    LET m == MatchOnDate(returns, rDate, chosenCabin)
        nights == nightsBetween(outItem.Date, rDate)
    IN IF OutsideWindow(rDate, outItem.Date, minN, maxN) THEN <<>>
       ELSE IF ~m.found THEN <<>>
       ELSE IF nights < minN \/ nights > maxN THEN <<>>
       ELSE <<[outboundItem |-> outItem, returnItem |-> m.matchedReturn,
               departDate |-> outItem.Date, returnDate |-> rDate,
               chosenCabin |-> m.matchedCabin, nights |-> nights]>>

\* every candidate pair in the order the two loops push them
Candidates(outbound, returns, minN, maxN, preferEconomy) ==
    LET outs == sortedOutbound(outbound)
        keys == ReturnDateKeys(returns)
        ForOut(outItem) ==
            LET chosenCabin == ChosenCabin(outItem, preferEconomy)
            IN IF outItem.Date = NoDate \/ chosenCabin = "" THEN <<>>
               ELSE Flatten([j \in 1..Len(keys) |->
                        CandidateFor(outItem, keys[j], returns, chosenCabin, minN, maxN)])
    IN Flatten([i \in 1..Len(outs) |-> ForOut(outs[i])])

\* a set of integers as the ascending sequence
SortedSeq(S) ==
    [k \in 1..Cardinality(S) |-> CHOOSE x \in S : Cardinality({y \in S : y < x}) = k - 1]

\* [...new Set(s)]: the first occurrences, in order
Dedupe(s) ==
    LET F[i \in 0..Len(s)] ==
            IF i = 0 THEN <<>>
            ELSE IF s[i] \in Range(F[i-1]) THEN F[i-1] ELSE Append(F[i-1], s[i])
    IN F[Len(s)]

\* a selection that stops at three durations
selectedDurationsFirstThree(availableDurations) ==
    SubSeq(availableDurations, 1,
           IF Len(availableDurations) < 3 THEN Len(availableDurations) ELSE 3)

\* a sampling that truncates the index instead of rounding it
selectedDurationsTruncated(availableDurations) ==
    LET L == Len(availableDurations)
    IN IF L <= MaxDurations THEN availableDurations
       ELSE Dedupe([i \in 1..MaxDurations |->
                availableDurations[(((i - 1) * (L - 1)) \div (MaxDurations - 1)) + 1]])

\* a sampling whose loop stops one pick early
selectedDurationsFourPicks(availableDurations) ==
    LET L == Len(availableDurations)
    IN IF L <= MaxDurations THEN availableDurations
       ELSE Dedupe([i \in 1..(MaxDurations - 1) |->
                availableDurations[((2 * (i - 1) * (L - 1) + (MaxDurations - 1))
                                    \div (2 * (MaxDurations - 1))) + 1]])

\* the durations kept: all of them when there are at most 5, else those at
\* the indices Math.round(i * (length - 1) / 4), i = 0..4, without duplicates
selectedDurations(availableDurations) ==
    LET L == Len(availableDurations)
    IN IF L <= MaxDurations THEN availableDurations
       ELSE Dedupe([i \in 1..MaxDurations |->
                availableDurations[((2 * (i - 1) * (L - 1) + (MaxDurations - 1))
                                    \div (2 * (MaxDurations - 1))) + 1]])

\* a selection that takes the last candidate of a bucket instead of the first
SelectPairsLatest(cands) ==
    LET availableDurations == SortedSeq({cands[i].nights : i \in 1..Len(cands)})
        sel == selectedDurations(availableDurations)
        Last(n) ==
            LET bucket == SelectIdx(cands, [i \in 1..Len(cands) |-> cands[i].nights = n])
            IN bucket[Len(bucket)]
        picked == [i \in 1..Len(sel) |-> Last(sel[i])]
    IN StableSort(picked, [i, j \in 1..Len(picked) |-> picked[i].nights - picked[j].nights])

\* one pair per selected duration, the first of the bucket sorted by
\* departDate, and the pairs sorted by nights
SelectPairs(cands) ==
    LET availableDurations == SortedSeq({cands[i].nights : i \in 1..Len(cands)})
        sel == selectedDurations(availableDurations)
        First(n) ==
            LET bucket == SelectIdx(cands, [i \in 1..Len(cands) |-> cands[i].nights = n])
            IN StableSort(bucket, [i, j \in 1..Len(bucket) |->
                    DateCompare(bucket[i].departDate, bucket[j].departDate)])[1]
        picked == [i \in 1..Len(sel) |-> First(sel[i])]
    IN StableSort(picked, [i, j \in 1..Len(picked) |-> picked[i].nights - picked[j].nights])

\* Scenario A's calendar: economy-only records, the outbound ones on
\* 2026-02-03 and 2026-02-10 (in either order), the return ones on the dates
\* of a nonempty subset of six dates in ascending order
CalendarOutbound ==
    {<<WithDate(YOnly, <<2, 3>>)>>,
     <<WithDate(YOnly, <<2, 3>>), WithDate(YOnly, <<2, 10>>)>>,
     <<WithDate(YOnly, <<2, 10>>), WithDate(YOnly, <<2, 3>>)>>}
CalendarReturns ==
    {[k \in 1..Cardinality(S) |->
        WithDate(YOnly, DatesByDay[SortedSeq({DayOfYear(d) : d \in S})[k]])] :
     S \in (SUBSET {<<2, 6>>, <<2, 7>>, <<2, 8>>, <<2, 9>>, <<2, 11>>, <<2, 13>>}) \ {{}}}

\* the candidates the Trip-Detail Provider lists for one availability ID
EconomyOneStop ==
    [Cabin |-> "Economy", Stops |-> Num(1), TotalDuration |-> Num(60), MileageCost |-> Num(2)]
EconomyNonStop ==
    [Cabin |-> "Economy", Stops |-> Num(0), TotalDuration |-> Num(90), MileageCost |-> Num(3)]
EconomyUncosted ==
    [Cabin |-> "Economy", Stops |-> Num(0), TotalDuration |-> Num(60), MileageCost |-> Undef]
BusinessNonStop ==
    [Cabin |-> "business", Stops |-> Num(0), TotalDuration |-> Num(60), MileageCost |-> Num(4)]

\* what fetchTrips resolves with for the outbound and the return records
TripAnswers ==
    {[out |-> <<EconomyOneStop, EconomyNonStop>>, ret |-> <<EconomyOneStop, EconomyNonStop>>],
     [out |-> <<BusinessNonStop>>, ret |-> <<EconomyOneStop, EconomyNonStop>>],
     [out |-> <<EconomyOneStop, EconomyNonStop>>, ret |-> <<EconomyUncosted>>],
     [out |-> <<BusinessNonStop>>, ret |-> <<BusinessNonStop>>]}

\* the errors a fetch can throw: a non-success response (status and body
\* text) or a network failure, which has neither (0 and "" stand for undefined)
SearchErrors ==
    {[message |-> "Seats Cached Search failed", status |-> 429, detail |-> "quota exceeded"],
     [message |-> "fetch failed", status |-> 0, detail |-> ""]}
TripsErrors ==
    {[message |-> "Seats Get Trips failed", status |-> 429, detail |-> "quota exceeded"],
     [message |-> "fetch failed", status |-> 0, detail |-> ""]}

\* a catch block that answers every error with 500
ErrorStatusAlways500(err) == 500

\* err?.status || 500
ErrorStatus(err) == IF err.status = 0 THEN 500 ELSE err.status

\* extractTripSummary: null for no trip, else the fields read by the card
extractTripSummary(trip) ==
    IF trip = JsNull THEN JsNull
    ELSE [stops |-> IF IsNumber(trip.Stops) THEN trip.Stops ELSE JsNull,
          cabin |-> trip.Cabin,
          mileageCost |-> IF IsNumber(trip.MileageCost) THEN trip.MileageCost ELSE JsNull]

\* summary?.mileageCost || 0
PointsOf(summary) ==
    IF summary = JsNull THEN 0
    ELSE IF summary.mileageCost = JsNull THEN 0 ELSE summary.mileageCost.num

\* the card of one pair, given the two trip lists
CardOf(pair, outTrips, retTrips) ==
    LET outboundSummary == extractTripSummary(pickBestTrip(outTrips, pair.chosenCabin))
        returnSummary == extractTripSummary(pickBestTrip(retTrips, pair.chosenCabin))
    IN [departDate |-> pair.departDate, returnDate |-> pair.returnDate,
        nights |-> nightsBetween(pair.departDate, pair.returnDate),
        cabin |-> pair.chosenCabin,
        outboundTripSummary |-> outboundSummary,
        returnTripSummary |-> returnSummary,
        totalPoints |-> PointsOf(outboundSummary) + PointsOf(returnSummary)]

NoCalls == [search |-> 0, trips |-> 0]
NoTrips == [out |-> <<>>, ret |-> <<>>]

InitPairs ==
    /\ dpPc = "idle"
    /\ dpQuery = BaseQuery
    /\ budgetMiles = TravellerBudget
    /\ outboundResults = <<>>
    /\ returnResults = <<>>
    /\ dpPairs = <<>>
    /\ dpStatus = 0
    /\ dpMessage = ""
    /\ dpDetail = ""
    /\ dpCalls = NoCalls
    /\ dpTrips = NoTrips
    /\ dpCards = <<>>

\* the handler up to `await Promise.all([...])`: method and parameter checks,
\* then both cached searches are requested
DatePairsRequest(q) ==
    /\ dpPc = "idle"
    /\ dpQuery' = q
    /\ IF q.method # "GET"
       THEN /\ dpPc' = "done" /\ dpStatus' = 405 /\ dpMessage' = "Method not allowed"
            /\ UNCHANGED <<dpDetail, dpCalls>>
       ELSE IF q.origin_airport = "" \/ q.destination_airport = ""
               \/ q.start_date = "" \/ q.end_date = ""
       THEN /\ dpPc' = "done" /\ dpStatus' = 400 /\ dpMessage' = "Missing required query params"
            /\ dpDetail' = "Required: origin_airport, destination_airport, start_date, end_date"
            /\ UNCHANGED dpCalls
       ELSE /\ dpPc' = "fetching"
            /\ dpCalls' = [dpCalls EXCEPT !.search = 2]
            /\ UNCHANGED <<dpStatus, dpMessage, dpDetail>>
    /\ UNCHANGED <<budgetMiles, outboundResults, returnResults, dpPairs, dpTrips, dpCards>>
    /\ Frame("pairs")

\* one of the two cached searches throws: Promise.all rejects and the catch
\* block answers with the error
DatePairsSearchFailed(err) ==
    /\ dpPc = "fetching"
    /\ dpPc' = "done"
    /\ dpStatus' = ErrorStatus(err)
    /\ dpMessage' = err.message
    /\ dpDetail' = err.detail
    /\ UNCHANGED <<dpQuery, budgetMiles, outboundResults, returnResults, dpPairs,
                   dpCalls, dpTrips, dpCards>>
    /\ Frame("pairs")

\* Both cached searches have answered and the handler runs to the
\* trip-detail requests: the empty-result messages, the pairs of every
\* duration, the selection, and two fetchTrips per selected pair.
SearchesAnswered(outbound, returns) ==
    /\ outboundResults' = outbound
    /\ returnResults' = returns
    /\ IF Len(outbound) = 0
       THEN /\ dpPc' = "done" /\ dpStatus' = 200
            /\ dpMessage' = "No outbound availability found"
            /\ UNCHANGED <<dpPairs, dpCalls>>
       ELSE IF Len(returns) = 0
       THEN /\ dpPc' = "done" /\ dpStatus' = 200
            /\ dpMessage' = "No return availability found"
            /\ UNCHANGED <<dpPairs, dpCalls>>
       ELSE LET pairs == SelectPairs(Candidates(outbound, returns,
                                                minNOf(dpQuery), maxNOf(dpQuery),
                                                preferEconomyOf(dpQuery)))
            IN IF Len(pairs) = 0
               THEN /\ dpPc' = "done" /\ dpStatus' = 200
                    /\ dpMessage' = "No date pairs found"
                    /\ UNCHANGED <<dpPairs, dpCalls>>
               ELSE /\ dpPc' = "trips"
                    /\ dpPairs' = pairs
                    /\ dpCalls' = [dpCalls EXCEPT !.trips = 2 * Len(pairs)]
                    /\ UNCHANGED <<dpStatus, dpMessage>>
    /\ UNCHANGED <<dpQuery, budgetMiles, dpDetail, dpTrips, dpCards>>
    /\ Frame("pairs")

DatePairsMatch ==
    /\ dpPc = "fetching"
    /\ \/ \E outbound \in SeqsUpTo(PairRecords, MaxRecords) :
          \E returns \in SeqsUpTo(PairRecords, MaxRecords - Len(outbound)) :
             SearchesAnswered(outbound, returns)
       \/ \E outbound \in CalendarOutbound : \E returns \in CalendarReturns :
             SearchesAnswered(outbound, returns)

\* one of the fetchTrips calls throws: the outer Promise.all rejects and the
\* catch block answers with the error, without cards
DatePairsTripsFailed(err) ==
    /\ dpPc = "trips"
    /\ dpPc' = "done"
    /\ dpStatus' = ErrorStatus(err)
    /\ dpMessage' = err.message
    /\ dpDetail' = err.detail
    /\ UNCHANGED <<dpQuery, budgetMiles, outboundResults, returnResults, dpPairs,
                   dpCalls, dpTrips, dpCards>>
    /\ Frame("pairs")

\* every fetchTrips has answered: one card per selected pair
DatePairsCards ==
    /\ dpPc = "trips"
    /\ \E answer \in TripAnswers :
          /\ dpTrips' = answer
          /\ dpCards' = [i \in 1..Len(dpPairs) |-> CardOf(dpPairs[i], answer.out, answer.ret)]
    /\ dpPc' = "done"
    /\ dpStatus' = 200
    /\ UNCHANGED <<dpQuery, budgetMiles, outboundResults, returnResults, dpPairs,
                   dpMessage, dpDetail, dpCalls>>
    /\ Frame("pairs")

NextPairs ==
    \/ \E q \in PairQueries : DatePairsRequest(q)
    \/ \E err \in SearchErrors : DatePairsSearchFailed(err)
    \/ DatePairsMatch
    \/ \E err \in TripsErrors : DatePairsTripsFailed(err)
    \/ DatePairsCards

----------------------------------------------------------------------------
(* The budget conversions of processFlowA on their own *)

MaxPoints == 20
MaxCost == 12

InitConvert ==
    /\ cvPc = "input"
    /\ cvPoints \in 0..MaxPoints
    /\ cvCost \in 0..MaxCost
    \* one card of every multiplier of the table, and a name outside the table
    /\ cvCard \in {"Burgundy Private Credit Card", "Magnus Credit Card (Standard)",
                   "Select Credit Card", "Privilege Easy Credit Card", "Atlas Credit Card"}
    /\ cvMiles = Undef
    /\ cvRequired = Undef

\* const partnerMiles = Math.floor(Number(edgePoints) * multiplier)
ConvertBudget ==
    /\ cvPc = "input"
    /\ cvMiles = Undef
    /\ cvMiles' = PartnerMiles(Num(cvPoints), cvCard)
    /\ UNCHANGED <<cvPc, cvPoints, cvCost, cvCard, cvRequired>>
    /\ Frame("convert")

\* edgePointsRequired of an option whose mileageCost is cvCost
ConvertCost ==
    /\ cvPc = "input"
    /\ cvRequired = Undef
    /\ cvRequired' = Num(EdgePointsRequired(cvCost, cvCard))
    /\ UNCHANGED <<cvPc, cvPoints, cvCost, cvCard, cvMiles>>
    /\ Frame("convert")

NextConvert ==
    \/ ConvertBudget
    \/ ConvertCost

----------------------------------------------------------------------------
(* The matching and selection of the date-pairs handler, run repeatedly *)

MaxMatchRecords == 2
MaxRuns == 2

\* the return lists of the repeated runs: one or two records, on one date
\* in both cabins and on two dates, in either order
MatchReturnLists ==
    {<<WithDate(YOnly, <<2, 28>>)>>, <<WithDate(JOnly, <<2, 28>>)>>,
     <<WithDate(YOnly, <<2, 28>>), WithDate(JOnly, <<2, 28>>)>>,
     <<WithDate(JOnly, <<2, 28>>), WithDate(YOnly, <<2, 28>>)>>,
     <<WithDate(YOnly, <<2, 28>>), WithDate(YOnly, <<3, 1>>)>>,
     <<WithDate(YOnly, <<3, 1>>), WithDate(YOnly, <<2, 28>>)>>}

InitMatch ==
    /\ mtPc = "ready"
    \* the queries that pass the parameter check
    /\ mtQuery \in {q \in PairQueries : q.method = "GET" /\ q.origin_airport # ""}
    /\ \/ /\ mtOutbound \in SeqsUpTo(PairRecords, MaxMatchRecords) \ {<<>>}
          /\ mtReturns \in MatchReturnLists
       \/ /\ mtOutbound \in CalendarOutbound
          /\ mtReturns \in CalendarReturns
    /\ mtRuns = <<>>

\* one more request with the same query whose searches return the same
\* records: the handler's matching and selection, on fresh local maps
MatchRun ==
    /\ mtPc = "ready"
    /\ Len(mtRuns) < MaxRuns
    /\ mtRuns' = Append(mtRuns, SelectPairs(Candidates(mtOutbound, mtReturns,
                                                       minNOf(mtQuery), maxNOf(mtQuery),
                                                       preferEconomyOf(mtQuery))))
    /\ UNCHANGED <<mtPc, mtQuery, mtOutbound, mtReturns>>
    /\ Frame("match")

NextMatch == MatchRun

----------------------------------------------------------------------------
(* The choice of durations, on every set of available durations *)

MaxNights == 10

InitSample ==
    /\ smPc = "input"
    /\ smDurations \in {SortedSeq(D) : D \in SUBSET (1..MaxNights)}
    /\ smSelected = <<>>

\* availableDurations -> selectedDurations
SampleRun ==
    /\ smPc = "input"
    /\ smSelected' = selectedDurations(smDurations)
    /\ smPc' = "done"
    /\ UNCHANGED smDurations
    /\ Frame("sample")

NextSample == SampleRun

----------------------------------------------------------------------------
(* The grouping of processFlowA's options, on lists of many destinations *)

MaxDests == 7

\* airports in the order their records arrive; the first two are resolved
\* to one city, the others carry no city name
GroupDests == <<"BKK", "DMK", "SIN", "KUL", "HKT", "CNX", "HAN", "SGN">>

\* the options of one airport that need the given points: the airport has
\* none, or a one-stop one (1 or 2 points) and a non-stop one at 3 points,
\* or a non-stop one at 2 points alone
GroupItems(d, profile, points) ==
    LET Item(stops) ==
            [destination |-> GroupDests[d],
             destinationName |-> IF d <= 2 THEN "Bangkok" ELSE "",
             edgePointsRequired |-> points, stops |-> Num(stops)]
    IN CASE profile = 1 /\ points = 1 + (d % 2) -> <<Item(1)>>
         [] profile = 1 /\ points = 3 -> <<Item(0)>>
         [] profile = 2 /\ points = 2 -> <<Item(0)>>
         [] OTHER -> <<>>

\* `mapped` after its sort by edgePointsRequired: ascending points, options
\* of equal points in the order of arrival
InitGroup ==
    /\ gpPc = "input"
    /\ \E f \in [1..MaxDests -> 0..2] :
          gpMapped = Flatten([p \in 1..3 |->
                        Flatten([d \in 1..MaxDests |-> GroupItems(d, f[d], p)])])
    /\ gpOptions = <<>>

\* byDest, destGroups, their sort, the flattening and the cap
GroupRun ==
    /\ gpPc = "input"
    /\ gpOptions' = Deduplicated(gpMapped)
    /\ gpPc' = "done"
    /\ UNCHANGED gpMapped
    /\ Frame("group")

NextGroup == GroupRun

----------------------------------------------------------------------------
(* ItineraryGenerator.handleSeeExactDates and DatePairsModal (React) *)

MaxRequests == 2

\* the destinations of the itineraries on the page, the nights of cards
UiDests == {"Bangkok", "Singapore"}
UiNights == {3, 5}

\* datePairsCards: the nights of the cards and the request that brought
\* them (0 and no nights for the empty array)
NoCards == [req |-> 0, nights |-> {}]

\* what a date-pairs request can end in: cards, a 200 with a message and no
\* cards, or a failure (non-2xx or a rejected fetch)
DateAnswers == {"cards3", "cards35", "message", "failed"}

\* the modal is mounted closed, with no destination
InitDates ==
    /\ uiOpen = FALSE
    /\ uiDest = ""
    /\ uiCards = NoCards
    /\ uiError = 0
    /\ uiLoading = FALSE
    /\ uiReqs = <<>>
    /\ msCurrent = ""
    /\ msSummaries = [n \in UiNights |-> ""]
    /\ msFetches = [k \in UiDests \X UiNights |-> 0]
    /\ msIssued = [n \in UiNights |-> 0]

\* needToFetch of the modal's second effect
needToFetch(cards, destination, tripSummaries) ==
    IF cards.nights = {} \/ destination = "" THEN {}
    ELSE {n \in cards.nights : tripSummaries[n] = ""}

\* fetchSummaries run `runs` times by the second effect: one request per
\* night of needToFetch each time, for the destination prop of that render
fetchSummaries(need, runs) ==
    /\ msFetches' = [k \in UiDests \X UiNights |->
                        IF k[1] = uiDest' /\ k[2] \in need THEN msFetches[k] + runs
                        ELSE msFetches[k]]

\* handleSeeExactDates up to its await, and the effects of the render that
\* follows: the first effect resets the summaries when the destination
\* differs from currentDestination; the second returns on the empty cards
handleSeeExactDates(d) ==
    /\ ~uiOpen
    /\ Len(uiReqs) < MaxRequests
    /\ uiDest' = d
    /\ uiCards' = NoCards
    /\ uiError' = 0
    /\ uiLoading' = TRUE
    /\ uiOpen' = TRUE
    /\ uiReqs' = Append(uiReqs, [dest |-> d, status |-> "pending"])
    /\ msSummaries' = IF d # msCurrent THEN [n \in UiNights |-> ""] ELSE msSummaries
    /\ msCurrent' = d
    /\ msIssued' = [n \in UiNights |-> 0]
    /\ UNCHANGED msFetches
    /\ Frame("dates")

\* handleSeeExactDates after its await, for the request r, and the second
\* effect of the modal when the cards changed
DatePairsResponse(r, answer) ==
    /\ r \in 1..Len(uiReqs)
    /\ uiReqs[r].status = "pending"
    /\ uiReqs' = [uiReqs EXCEPT ![r].status = answer]
    /\ uiCards' = CASE answer = "cards3" -> [req |-> r, nights |-> {3}]
                    [] answer = "cards35" -> [req |-> r, nights |-> {3, 5}]
                    [] answer = "message" -> NoCards
                    [] OTHER -> uiCards
    /\ uiError' = IF answer \in {"message", "failed"} THEN r ELSE uiError
    /\ uiLoading' = FALSE
    /\ UNCHANGED <<uiOpen, uiDest, msCurrent, msSummaries>>
    /\ IF answer = "failed"
       THEN UNCHANGED <<msFetches, msIssued>>
       ELSE LET need == needToFetch(uiCards', uiDest, msSummaries)
            IN /\ fetchSummaries(need, 1)
               /\ msIssued' = [n \in UiNights |->
                                 IF uiOpen /\ n \in need THEN 1 ELSE 0]
    /\ Frame("dates")

\* one /api/trip-summary request settles; a summary is stored under its
\* nights, which re-runs the second effect
SummaryResponse(d, n, ok) ==
    /\ msFetches[<<d, n>>] > 0
    /\ IF ok
       THEN /\ msSummaries' = [msSummaries EXCEPT ![n] = d]
            /\ LET need == needToFetch(uiCards, uiDest, msSummaries')
               IN /\ msFetches' = [k \in UiDests \X UiNights |->
                                     IF k = <<d, n>> THEN msFetches[k] - 1
                                     ELSE IF k[1] = uiDest /\ k[2] \in need
                                     THEN msFetches[k] + 1 ELSE msFetches[k]]
                  /\ msIssued' = [m \in UiNights |->
                                     IF uiOpen /\ m \in need THEN msIssued[m] + 1
                                     ELSE msIssued[m]]
       ELSE /\ msFetches' = [msFetches EXCEPT ![<<d, n>>] = @ - 1]
            /\ UNCHANGED <<msSummaries, msIssued>>
    /\ UNCHANGED <<uiOpen, uiDest, uiCards, uiError, uiLoading, uiReqs, msCurrent>>
    /\ Frame("dates")

\* onOpenChange(false). The third effect empties the summaries and
\* currentDestination; in the next render the first effect empties them
\* again and restores currentDestination, and the second effect runs in
\* that render and in the one after it, each time on an empty map
CloseModal ==
    /\ uiOpen
    /\ uiOpen' = FALSE
    /\ msSummaries' = [n \in UiNights |-> ""]
    /\ msCurrent' = uiDest
    /\ msIssued' = [n \in UiNights |-> 0]
    /\ UNCHANGED <<uiDest, uiCards, uiError, uiLoading, uiReqs>>
    /\ fetchSummaries(needToFetch(uiCards, uiDest, msSummaries'), 2)
    /\ Frame("dates")

NextDates ==
    \/ \E d \in UiDests : handleSeeExactDates(d)
    \/ \E r \in 1..Len(uiReqs), answer \in DateAnswers : DatePairsResponse(r, answer)
    \/ \E d \in UiDests, n \in UiNights, ok \in BOOLEAN : SummaryResponse(d, n, ok)
    \/ CloseModal

----------------------------------------------------------------------------
(* Specifications *)

\* the parts that a specification does not run stay as constructed
Idle(own) ==
    /\ own = "pick" \/
          /\ pbPc = "off"
          /\ pbTrips = <<>>
          /\ pbCabin = "economy"
          /\ pbResult = JsNull
    /\ own = "summary" \/
          /\ hasClient = FALSE
          /\ summaryCache = [k \in CacheKeys |-> Absent]
          /\ summaryInFlight = [k \in CacheKeys |-> 0]
          /\ tasks = <<>>
          /\ calls = <<>>
          /\ upstreamCalls = [k \in CacheKeys |-> 0]
    /\ own = "flowa" \/
          /\ faPc = "off"
          /\ faBody = BaseBody
          /\ faResolved = <<>>
          /\ faResults = <<>>
          /\ faPartnerMiles = Num(0)
          /\ faOptions = <<>>
          /\ faStatus = 0
          /\ faError = ""
          /\ faDetail = ""
          /\ faCalls = NoFlowCalls
          /\ faDegraded = NotDegraded
    /\ own = "pairs" \/
          /\ dpPc = "off"
          /\ dpQuery = BaseQuery
          /\ budgetMiles = TravellerBudget
          /\ outboundResults = <<>>
          /\ returnResults = <<>>
          /\ dpPairs = <<>>
          /\ dpStatus = 0
          /\ dpMessage = ""
          /\ dpDetail = ""
          /\ dpCalls = NoCalls
          /\ dpTrips = NoTrips
          /\ dpCards = <<>>
    /\ own = "convert" \/
          /\ cvPc = "off"
          /\ cvPoints = 0
          /\ cvCost = 0
          /\ cvCard = "Atlas Credit Card"
          /\ cvMiles = Undef
          /\ cvRequired = Undef
    /\ own = "match" \/
          /\ mtPc = "off"
          /\ mtQuery = BaseQuery
          /\ mtOutbound = <<>>
          /\ mtReturns = <<>>
          /\ mtRuns = <<>>
    /\ own = "sample" \/
          /\ smPc = "off"
          /\ smDurations = <<>>
          /\ smSelected = <<>>
    /\ own = "group" \/
          /\ gpPc = "off"
          /\ gpMapped = <<>>
          /\ gpOptions = <<>>
    /\ own = "dates" \/ InitDates

PickInit == InitPick /\ Idle("pick")
SummaryInit == InitSummary /\ Idle("summary")
FlowAInit == InitFlowA /\ Idle("flowa")
PairsInit == InitPairs /\ Idle("pairs")
ConvertInit == InitConvert /\ Idle("convert")
MatchInit == InitMatch /\ Idle("match")
SampleInit == InitSample /\ Idle("sample")
GroupInit == InitGroup /\ Idle("group")
DatesInit == InitDates /\ Idle("dates")

SpecPick == PickInit /\ [][NextPick]_vars
SpecSummary == SummaryInit /\ [][NextSummary]_vars
SpecFlowA == FlowAInit /\ [][NextFlowA]_vars
SpecPairs == PairsInit /\ [][NextPairs]_vars
SpecConvert == ConvertInit /\ [][NextConvert]_vars
SpecMatch == MatchInit /\ [][NextMatch]_vars
SpecSample == SampleInit /\ [][NextSample]_vars
SpecGroup == GroupInit /\ [][NextGroup]_vars
SpecDates == DatesInit /\ [][NextDates]_vars

\* the whole program: the parts side by side
Init == InitPick /\ InitSummary /\ InitFlowA /\ InitPairs /\ InitConvert /\ InitMatch
        /\ InitSample /\ InitGroup /\ InitDates
Next == NextPick \/ NextSummary \/ NextFlowA \/ NextPairs \/ NextConvert \/ NextMatch
        \/ NextSample \/ NextGroup \/ NextDates
Spec == Init /\ [][Next]_vars

----------------------------------------------------------------------------
(* Properties of processFlowA, checked under SpecFlowA *)

\* C1: every option processFlowA emits has a positive mileage cost that is at
\* most the budget in partner miles, and that budget is the floor of the
\* request's points times the card's multiplier: with the multiplier n/d, the
\* whole number mileageCost is at most floor(points * n / d) exactly when
\* mileageCost * d <= points * n.
C1_OptionsWithinBudget ==
    \A i \in 1..Len(faOptions) :
        LET o == faOptions[i]
            card == faBody.cardDisplayName
            points == ToNumber(faBody.edgePoints)
        IN /\ o.mileageCost > 0
           /\ IsFinite(points)
           /\ card \in DOMAIN CARD_MULTIPLIER
           /\ o.mileageCost * CARD_MULTIPLIER[card][2] <= points.num * CARD_MULTIPLIER[card][1]
           /\ IsFinite(faPartnerMiles)
           /\ o.mileageCost <= faPartnerMiles.num
           /\ faPartnerMiles.num * CARD_MULTIPLIER[card][2] <= points.num * CARD_MULTIPLIER[card][1]
           /\ (faPartnerMiles.num + 1) * CARD_MULTIPLIER[card][2]
                  > points.num * CARD_MULTIPLIER[card][1]

\* a finished request that answered with an option costing exactly the budget
\* while an available record costing more than the budget was left out
C1_Witness ==
    /\ faPc = "done" /\ faStatus = 200
    /\ \E i \in 1..Len(faOptions) : faOptions[i].mileageCost = faPartnerMiles.num
    /\ \E j \in 1..Len(faResults) :
          /\ KnownSource(faResults[j])
          /\ AvailOf(faResults[j], faBody.cabin) = "true"
          /\ IsFinite(ToNumber(RawMilesOf(faResults[j], faBody.cabin)))
          /\ ToNumber(RawMilesOf(faResults[j], faBody.cabin)).num > faPartnerMiles.num

C9_OptionsFromEligibleRecords ==
    /\ \A i \in 1..Len(faOptions) :
          \E j \in 1..Len(faResults) :
             LET r == faResults[j]
                 cost == ToNumber(RawMilesOf(r, faBody.cabin))
             IN /\ ToLowerCase(r.Source) \in DOMAIN PROGRAM_CAPABILITY
                /\ AvailOf(r, faBody.cabin) = "true"
                /\ IsFinite(cost)
                /\ cost.num > 0
                /\ faOptions[i].mileageCost = cost.num
                /\ faOptions[i].program = PROGRAM_CAPABILITY[ToLowerCase(r.Source)].name
                /\ faOptions[i].destination = DestOf(r)
    /\ (faPc = "done" /\ Len(faResults) > 0 => faStatus = 200)

\* a finished request with one option out of two records, the other record
\* having a truthy flag that is not true, an unknown source or a cost that is
\* no number
C9_Witness ==
    /\ faPc = "done" /\ faStatus = 200
    /\ Len(faOptions) = 1
    /\ Len(faResults) = 2
    /\ \E j \in 1..Len(faResults) :
          \/ AvailOf(faResults[j], faBody.cabin) = "truthy"
          \/ ~KnownSource(faResults[j])
          \/ ~IsFinite(ToNumber(RawMilesOf(faResults[j], faBody.cabin)))

----------------------------------------------------------------------------
(* Properties of the date-pairs handler, checked under SpecPairs *)

\* C2: every pair the handler emits has a nights value that is the number of
\* whole days from its departure date to its return date, is at least 1, and
\* lies between the request's effective minimum and maximum nights.
C2_NightsWithinWindow ==
    \A i \in 1..Len(dpPairs) :
        LET p == dpPairs[i]
        IN /\ p.departDate \in AllDates /\ p.returnDate \in AllDates
           /\ p.nights = DayNumbers[p.returnDate] - DayNumbers[p.departDate]
           /\ p.nights >= 1
           /\ minNOf(dpQuery) <= p.nights
           /\ p.nights <= maxNOf(dpQuery)
           /\ p.outboundItem.Date = p.departDate
           /\ p.returnItem.Date = p.returnDate

\* two pairs were emitted, one of the minimum and one of the maximum number
\* of nights, one of them across the end of February
C2_Witness ==
    /\ dpPc = "trips"
    /\ Len(dpPairs) = 2
    /\ minNOf(dpQuery) < maxNOf(dpQuery)
    /\ dpPairs[1].nights = minNOf(dpQuery)
    /\ dpPairs[2].nights = maxNOf(dpQuery)
    /\ \E i \in 1..Len(dpPairs) : dpPairs[i].departDate[1] # dpPairs[i].returnDate[1]

\* C3: the outbound record and the return record of every emitted pair are
\* admissible under the traveller's budget in the pair's cabin: the cabin flag
\* is exactly true and the cost is positive and at most the budget.
C3_PairsWithinBudget ==
    LET Flag(r, cabin) ==
            IF cabin = "economy" THEN r.YAvailable = "true" \/ r.YAvailableRaw = "true"
            ELSE r.JAvailable = "true" \/ r.JAvailableRaw = "true"
        Cost(r, cabin) ==
            IF cabin = "economy" THEN r.YMileageCostRaw.num ELSE r.JMileageCostRaw.num
        Admissible(r, cabin) ==
            Flag(r, cabin) /\ Cost(r, cabin) > 0 /\ Cost(r, cabin) <= budgetMiles
    IN \A i \in 1..Len(dpPairs) :
          /\ Admissible(dpPairs[i].outboundItem, dpPairs[i].chosenCabin)
          /\ Admissible(dpPairs[i].returnItem, dpPairs[i].chosenCabin)

\* C4: a pair is matched in the fallback cabin only when the cabin chosen for
\* its outbound record has no available return record on any date of the
\* outbound's night window, and the return record of every pair is available
\* in the cabin the pair records.
C4_FallbackOnlyWhenWindowEmpty ==
    \A i \in 1..Len(dpPairs) :
        LET p == dpPairs[i]
            chosen == ChosenCabin(p.outboundItem, preferEconomyOf(dpQuery))
            Flag(r, cabin) ==
                IF cabin = "economy" THEN r.YAvailable = "true" \/ r.YAvailableRaw = "true"
                ELSE r.JAvailable = "true" \/ r.JAvailableRaw = "true"
            InWindow(r) ==
                /\ r.Date \in AllDates
                /\ DayNumbers[r.Date] - DayNumbers[p.departDate] >= minNOf(dpQuery)
                /\ DayNumbers[r.Date] - DayNumbers[p.departDate] <= maxNOf(dpQuery)
        IN /\ Flag(p.returnItem, p.chosenCabin)
           /\ (p.chosenCabin # chosen =>
                 \A j \in 1..Len(returnResults) :
                    InWindow(returnResults[j]) => ~Flag(returnResults[j], chosen))

\* C7: after matching, a request without an admissible outbound record has no
\* pair and the reason "no outbound availability"; one with an admissible
\* outbound record but no admissible return record has no pair and the reason
\* "no return availability"; the reason "no date pairs" is given only when
\* both directions have an admissible record.
C7_ReasonsDistinguished ==
    LET Flag(r, cabin) ==
            IF cabin = "economy" THEN r.YAvailable = "true" \/ r.YAvailableRaw = "true"
            ELSE r.JAvailable = "true" \/ r.JAvailableRaw = "true"
        Cost(r, cabin) ==
            IF cabin = "economy" THEN r.YMileageCostRaw.num ELSE r.JMileageCostRaw.num
        AnyAdmissible(records) ==
            \E i \in 1..Len(records) : \E cabin \in {"economy", "business"} :
                Flag(records[i], cabin) /\ Cost(records[i], cabin) > 0
                    /\ Cost(records[i], cabin) <= budgetMiles
    IN (dpPc = "trips" \/ (dpPc = "done" /\ dpStatus = 200)) =>
        /\ (~AnyAdmissible(outboundResults) =>
                dpPairs = <<>> /\ dpMessage = "No outbound availability found")
        /\ (AnyAdmissible(outboundResults) /\ ~AnyAdmissible(returnResults) =>
                dpPairs = <<>> /\ dpMessage = "No return availability found")
        /\ (dpMessage = "No date pairs found" =>
                AnyAdmissible(outboundResults) /\ AnyAdmissible(returnResults))

----------------------------------------------------------------------------
(* Properties of the summary cache, checked under SpecSummary *)

\* C5: calls of one cache key that are pending at the same time await one and
\* the same task, only the first of them has issued an upstream call, and a
\* call that was handed the in-flight task ends with that task's value; the
\* upstream calls of a key are exactly those of the calls that installed a
\* marker, one per task.
C5_ConcurrentCallsCoalesce ==
    /\ \A c1, c2 \in 1..Len(calls) :
          (/\ calls[c1].key = calls[c2].key
           /\ calls[c1].state = "awaiting"
           /\ calls[c2].state = "awaiting")
          => calls[c1].task = calls[c2].task
    /\ \A c \in 1..Len(calls) :
          calls[c].task # 0 =>
             /\ tasks[calls[c].task].key = calls[c].key
             /\ (calls[c].issued => calls[c].owner)
             /\ (calls[c].state = "done" => calls[c].result = tasks[calls[c].task].value)
    /\ \A t \in 1..Len(tasks) :
          Cardinality({c \in 1..Len(calls) : calls[c].task = t /\ calls[c].issued}) <= 1
    /\ \A key \in CacheKeys :
          upstreamCalls[key] =
             Cardinality({c \in 1..Len(calls) : calls[c].key = key /\ calls[c].issued})

\* three calls of one key were pending together on a single upstream call
C5_Witness ==
    /\ hasClient
    /\ Len(calls) = 3
    /\ \A c \in 1..Len(calls) :
          /\ calls[c].key = calls[1].key
          /\ calls[c].state = "awaiting"
    /\ upstreamCalls[calls[1].key] = 1
    /\ tasks[calls[1].task].status = "pending"

\* C6: once the upstream call of a key has failed and the first caller has
\* cleared the in-flight marker, a later call of that key issues a new
\* upstream call.
C6_RetryAfterFailure ==
    [][\A a \in SummaryArgs :
          (/\ CallSummary(a)
           /\ hasClient
           /\ summaryInFlight[KeyOf(a)] = 0
           /\ \E t \in 1..Len(tasks) :
                 tasks[t].key = KeyOf(a) /\ tasks[t].failed /\ tasks[t].settled)
          => upstreamCalls'[KeyOf(a)] = upstreamCalls[KeyOf(a)] + 1]_vars

----------------------------------------------------------------------------
(* Properties of pickBestTrip, checked under SpecPick *)

\* C10: pickBestTrip answers null exactly when no candidate's cabin label
\* equals the requested cabin up to case; otherwise it answers a matching
\* candidate that no matching candidate beats on stops (a missing count is
\* the worst) and then on duration (a missing duration is the worst), the
\* earliest such candidate in the list.
C10_BestTripDetermined ==
    LET matching ==
            {i \in 1..Len(pbTrips) : ToLowerCase(pbTrips[i].Cabin) = ToLowerCase(pbCabin)}
        FieldBetter(a, b) ==
            \/ IsNumber(a) /\ IsNumber(b) /\ a.num < b.num
            \/ IsNumber(a) /\ ~IsNumber(b)
        FieldSame(a, b) ==
            \/ IsNumber(a) /\ IsNumber(b) /\ a.num = b.num
            \/ ~IsNumber(a) /\ ~IsNumber(b)
        TripBetter(a, b) ==
            \/ FieldBetter(a.Stops, b.Stops)
            \/ FieldSame(a.Stops, b.Stops) /\ FieldBetter(a.TotalDuration, b.TotalDuration)
    IN pbPc = "done" =>
        /\ (pbResult = JsNull <=> matching = {})
        /\ matching # {} =>
              \E i \in matching :
                 /\ pbResult = pbTrips[i]
                 /\ \A j \in matching :
                       /\ ~TripBetter(pbTrips[j], pbTrips[i])
                       /\ (j < i => TripBetter(pbTrips[i], pbTrips[j]))

\* the pick among three candidates of the requested cabin, the first written
\* in another case, with equal stops: the answer is not the first listed, and
\* a candidate without a duration lost
C10_Witness ==
    /\ pbPc = "done"
    /\ Len(pbTrips) = 3
    /\ \A i \in 1..3 : ToLowerCase(pbTrips[i].Cabin) = pbCabin
    /\ pbTrips[1].Cabin # pbCabin
    /\ pbResult # JsNull
    /\ pbResult # pbTrips[1]
    /\ \A i \in 1..3 : pbTrips[i].Stops = pbTrips[1].Stops
    /\ \E i \in 1..3 : pbTrips[i].TotalDuration = Undef

----------------------------------------------------------------------------
(* Properties of the date-pair cards, checked under SpecPairs *)

\* C11: every selected pair gets a card, also when a leg has no trip-detail
\* candidate in the pair's cabin: that leg's summary is null exactly then,
\* a non-null summary is the one of a listed candidate of the pair's cabin,
\* and totalPoints is the sum of the two legs' mileageCost, a null summary
\* or a null cost counting as 0.
C11_CardDespiteMissingLeg ==
    (dpPc = "done" /\ dpStatus = 200 /\ dpPairs # <<>>) =>
        /\ Len(dpCards) = Len(dpPairs)
        /\ \A i \in 1..Len(dpCards) :
              LET card == dpCards[i]
                  pair == dpPairs[i]
                  InCabin(t) == ToLowerCase(t.Cabin) = pair.chosenCabin
                  CostOf(t) == IF "num" \in DOMAIN t.MileageCost THEN t.MileageCost ELSE JsNull
                  LegOk(summary, trips) ==
                      IF \A k \in 1..Len(trips) : ~InCabin(trips[k])
                      THEN summary = JsNull
                      ELSE /\ summary # JsNull
                           /\ \E k \in 1..Len(trips) :
                                 /\ InCabin(trips[k])
                                 /\ summary.cabin = trips[k].Cabin
                                 /\ summary.mileageCost = CostOf(trips[k])
                  Counted(summary) ==
                      IF summary = JsNull THEN 0
                      ELSE IF summary.mileageCost = JsNull THEN 0
                      ELSE summary.mileageCost.num
              IN /\ card.departDate = pair.departDate
                 /\ card.returnDate = pair.returnDate
                 /\ card.cabin = pair.chosenCabin
                 /\ LegOk(card.outboundTripSummary, dpTrips.out)
                 /\ LegOk(card.returnTripSummary, dpTrips.ret)
                 /\ card.totalPoints = Counted(card.outboundTripSummary)
                                       + Counted(card.returnTripSummary)

\* Scenario D: a card whose outbound leg has no candidate in the pair's
\* cabin; its total is the return leg's cost alone
C11_Witness ==
    /\ dpPc = "done" /\ dpStatus = 200
    /\ \E i \in 1..Len(dpCards) :
          /\ dpCards[i].cabin = "economy"
          /\ dpTrips.out = <<BusinessNonStop>>
          /\ dpCards[i].outboundTripSummary = JsNull
          /\ dpCards[i].returnTripSummary # JsNull
          /\ dpCards[i].returnTripSummary.mileageCost = Num(3)
          /\ dpCards[i].totalPoints = 3

----------------------------------------------------------------------------
(* Further properties of processFlowA, checked under SpecFlowA *)

----------------------------------------------------------------------------
(* Properties of the date-pairs error handling, checked under SpecPairs *)

\* C14: when a cached search or a trip-detail fetch fails, the request ends
\* with an error response: the upstream's status and body text for a
\* non-success answer (429, "quota exceeded"), 500 for a network failure;
\* no cards are returned, and no fetch is issued again: two searches and at
\* most two trip-detail fetches per selected pair in all.
C14_FetchFailureAborts ==
    /\ (dpPc = "done" /\ dpMessage \in {"Seats Cached Search failed", "Seats Get Trips failed"}) =>
            /\ dpStatus = 429
            /\ dpDetail = "quota exceeded"
    /\ (dpPc = "done" /\ dpMessage = "fetch failed") => dpStatus = 500
    /\ (dpPc = "done" /\ dpStatus \notin {200, 400, 405}) =>
            /\ dpMessage \in {"Seats Cached Search failed", "Seats Get Trips failed",
                              "fetch failed"}
            /\ dpCards = <<>>
            /\ dpCalls.search = 2
            /\ dpCalls.trips = 2 * Len(dpPairs)
    /\ dpCards # <<>> => (dpPc = "done" /\ dpStatus = 200)
    /\ dpCalls.search <= 2 /\ dpCalls.trips <= 2 * Len(dpPairs)

\* two pairs were selected and a trip-detail fetch was answered with 429
C14_Witness ==
    /\ dpPc = "done"
    /\ Len(dpPairs) = 2
    /\ dpCalls = [search |-> 2, trips |-> 4]
    /\ dpMessage = "Seats Get Trips failed"
    /\ dpStatus = 429
    /\ dpDetail = "quota exceeded"
    /\ dpCards = <<>>

\* C15: a failing destination resolver or summary generator does not fail
\* the request. A failed resolver leaves the trimmed destination as the
\* only airport; a request whose search was answered ends with 200
\* whatever the resolver and the generator did; every option then has a
\* summary, the fixed one-line fallback when the generator failed.
C15_DegradationNeverFails ==
    /\ (faPc \in {"fetching", "summaries", "done"} /\ faDegraded.resolver) =>
            faResolved = <<[iata |-> IF faBody.destination = " Bangkok " THEN "Bangkok"
                                     ELSE faBody.destination,
                            city |-> ""]>>
    /\ (faPc = "done" /\ faStatus # 200) =>
            faError \in {"Missing required fields", "Invalid travelMonth format",
                         "Invalid cabin", "Seats API fetch failed", "Seats API error"}
    /\ (faPc = "done" /\ faCalls.search = 1
            /\ faError \notin {"Seats API fetch failed", "Seats API error"}) =>
            /\ faStatus = 200
            /\ \A i \in 1..Len(faOptions) :
                  /\ Len(faOptions[i].tripSummary) > 0
                  /\ faDegraded.summary =>
                        faOptions[i].tripSummary = <<"Explore the city at your own pace">>

\* both the resolver and the generator failed on a request for " Bangkok "
\* and the response still carries an option
C15_Witness ==
    /\ faPc = "done" /\ faStatus = 200
    /\ faDegraded = [resolver |-> TRUE, summary |-> TRUE]
    /\ faBody.destination = " Bangkok "
    /\ faResolved = <<[iata |-> "Bangkok", city |-> ""]>>
    /\ Len(faOptions) > 0
    /\ faOptions[1].tripSummary = <<DEFAULT_SUMMARY>>

----------------------------------------------------------------------------
(* Properties of the date-pair selection, checked under SpecPairs *)

\* C16: a successful date-pairs response carries at most 3 cards.
C16_AtMostThreeCards ==
    (dpPc = "done" /\ dpStatus = 200) => Len(dpCards) <= 3

\* C17: Scenario A. With economy outbound records on 2026-02-03 and
\* 2026-02-10, economy return records on 2026-02-08 and 2026-02-13 and the
\* window of 3 to 10 nights, the selected pairs are exactly 02-03 -> 02-08
\* (5 nights) and 02-10 -> 02-13 (3 nights): two distinct durations.
C17_ScenarioATwoPairs ==
    (/\ dpPc \in {"trips", "done"}
     /\ minNOf(dpQuery) = 3 /\ maxNOf(dpQuery) = 10
     /\ Len(outboundResults) = 2
     /\ {outboundResults[i] : i \in 1..Len(outboundResults)}
            = {WithDate(YOnly, <<2, 3>>), WithDate(YOnly, <<2, 10>>)}
     /\ returnResults = <<WithDate(YOnly, <<2, 8>>), WithDate(YOnly, <<2, 13>>)>>) =>
        /\ {<<dpPairs[i].departDate, dpPairs[i].returnDate, dpPairs[i].nights>> :
                i \in 1..Len(dpPairs)}
              = {<<<<2, 3>>, <<2, 8>>, 5>>, <<<<2, 10>>, <<2, 13>>, 3>>}
        /\ Len(dpPairs) = 2
        /\ Cardinality({dpPairs[i].nights : i \in 1..Len(dpPairs)}) = 2

----------------------------------------------------------------------------
(* Properties of the budget conversions, checked under SpecConvert *)

\* C19: with the card's multiplier n/d (0 for a card outside the table),
\* partnerMiles is the floor of points * n / d, and edgePointsRequired of a
\* cost is the ceiling of cost * d / n when n > 0 and the cost itself
\* otherwise, for whole points and costs from 0 to the bounds.
C19_ConversionsRoundAsStated ==
    LET n == IF cvCard \in DOMAIN CARD_MULTIPLIER THEN CARD_MULTIPLIER[cvCard][1] ELSE 0
        d == IF cvCard \in DOMAIN CARD_MULTIPLIER THEN CARD_MULTIPLIER[cvCard][2] ELSE 1
    IN /\ cvMiles # Undef =>
            /\ "num" \in DOMAIN cvMiles
            /\ cvMiles.num * d <= cvPoints * n
            /\ cvPoints * n < (cvMiles.num + 1) * d
       /\ cvRequired # Undef =>
            /\ "num" \in DOMAIN cvRequired
            /\ IF n > 0
               THEN /\ (cvRequired.num - 1) * n < cvCost * d
                    /\ cvCost * d <= cvRequired.num * n
               ELSE cvRequired.num = cvCost

\* 7 points at 0.4 are 2 miles (2.8 rounded down) and a cost of 3 miles
\* needs 8 points (7.5 rounded up)
C19_Witness ==
    /\ cvCard = "Magnus Credit Card (Standard)"
    /\ cvPoints = 7 /\ cvMiles = Num(2)
    /\ cvCost = 3 /\ cvRequired = Num(8)

----------------------------------------------------------------------------
(* Properties of repeated matcher runs, checked under SpecMatch *)

----------------------------------------------------------------------------
(* Properties of the duration sampling, checked under SpecSample *)

\* C21: when there are more than 5 distinct night counts, the selected
\* durations are exactly the elements of the ascending list at the indices
\* round(i * (|D| - 1) / 4), i = 0..4 (round(q) being the whole number r with
\* r - 1/2 <= q < r + 1/2), in ascending order; the minimum and the maximum
\* are among them; for the durations 2..10 they are those at the indices
\* 0, 2, 4, 6, 8.
C21_SpreadSampling ==
    LET L == Len(smDurations)
        Index(i) == CHOOSE r \in 0..(L - 1) :
                        4 * r - 2 <= i * (L - 1) /\ i * (L - 1) < 4 * r + 2
        Sampled == {smDurations[Index(i) + 1] : i \in 0..4}
    IN (smPc = "done" /\ L > 5) =>
          /\ {smSelected[k] : k \in 1..Len(smSelected)} = Sampled
          /\ \A k \in 1..(Len(smSelected) - 1) : smSelected[k] < smSelected[k + 1]
          /\ smSelected[1] = smDurations[1]
          /\ smSelected[Len(smSelected)] = smDurations[L]
          /\ smDurations = <<2, 3, 4, 5, 6, 7, 8, 9, 10>> =>
                smSelected = <<smDurations[1], smDurations[3], smDurations[5],
                               smDurations[7], smDurations[9]>>

\* Scenario C: the durations 2..10 sampled to 2, 4, 6, 8, 10
C21_Witness ==
    /\ smPc = "done"
    /\ smDurations = <<2, 3, 4, 5, 6, 7, 8, 9, 10>>
    /\ smSelected = <<2, 4, 6, 8, 10>>

----------------------------------------------------------------------------
(* Properties of the choice of one pair per duration, checked under SpecMatch *)

\* C23: the pairs of a run are one per selected duration, in strictly
\* ascending order of nights and at most 5; each is the candidate of its
\* duration with the earliest outbound date and, among those of that date,
\* the one the matching loops produced first.
C23_EarliestPairPerDuration ==
    LET cands == Candidates(mtOutbound, mtReturns, minNOf(mtQuery), maxNOf(mtQuery),
                            preferEconomyOf(mtQuery))
        sel == selectedDurations(SortedSeq({cands[i].nights : i \in 1..Len(cands)}))
        Earliest(i) == \A j \in 1..Len(cands) :
                          cands[j].nights = cands[i].nights =>
                             ~DateLess(cands[j].departDate, cands[i].departDate)
        FirstOf(n) == CHOOSE i \in 1..Len(cands) :
                          /\ cands[i].nights = n /\ Earliest(i)
                          /\ \A j \in 1..(i - 1) : ~(cands[j].nights = n /\ Earliest(j))
    IN \A r \in 1..Len(mtRuns) :
          /\ Len(mtRuns[r]) = Len(sel)
          /\ Len(mtRuns[r]) <= 5
          /\ \A k \in 1..Len(sel) : mtRuns[r][k] = cands[FirstOf(sel[k])]
          /\ \A k \in 1..(Len(mtRuns[r]) - 1) : mtRuns[r][k].nights < mtRuns[r][k + 1].nights

\* six durations from two outbound dates that arrive latest first; five
\* pairs, and the pair of 3 nights leaves on 02-03 although 02-10 -> 02-13
\* is a candidate of 3 nights too
C23_Witness ==
    /\ Len(mtRuns) >= 1
    /\ mtOutbound = <<WithDate(YOnly, <<2, 10>>), WithDate(YOnly, <<2, 3>>)>>
    /\ {mtReturns[i].Date : i \in 1..Len(mtReturns)}
          = {<<2, 6>>, <<2, 7>>, <<2, 8>>, <<2, 9>>, <<2, 11>>, <<2, 13>>}
    /\ minNOf(mtQuery) = 3
    /\ Len(mtRuns[1]) = 5
    /\ mtRuns[1][1].nights = 3
    /\ mtRuns[1][1].departDate = <<2, 3>>

----------------------------------------------------------------------------
(* Properties of the grouping by destination, checked under SpecGroup *)

\* C24: in the flattened list the destination groups come in non-decreasing
\* order of their cheapest option's required points, the options of one
\* destination (its group key, and its airport code as well) are
\* contiguous, and there are at most 10 options.
C24_GroupsOrderedAndCapped ==
    LET n == Len(gpOptions)
        Cheapest(key) == CHOOSE p \in {gpOptions[i].edgePointsRequired : i \in 1..n} :
                            /\ \E i \in 1..n : DestKey(gpOptions[i]) = key
                                                /\ gpOptions[i].edgePointsRequired = p
                            /\ \A i \in 1..n : DestKey(gpOptions[i]) = key =>
                                                  p <= gpOptions[i].edgePointsRequired
    IN gpPc = "done" =>
          /\ n <= 10
          /\ \A i, j \in 1..n :
                i < j => Cheapest(DestKey(gpOptions[i])) <= Cheapest(DestKey(gpOptions[j]))
          /\ \A i, j, k \in 1..n :
                (i < j /\ j < k) =>
                   /\ DestKey(gpOptions[i]) = DestKey(gpOptions[k]) =>
                         DestKey(gpOptions[j]) = DestKey(gpOptions[i])
                   /\ gpOptions[i].destination = gpOptions[k].destination =>
                         gpOptions[j].destination = gpOptions[i].destination

\* six groups of two options each, one of them the city of two airports
\* with its two options at different airports: 12 options cut to 10
C24_Witness ==
    /\ gpPc = "done"
    /\ Len(gpMapped) >= 12
    /\ Len(gpOptions) = 10
    /\ \E i \in 1..9 :
          /\ gpOptions[i].destinationName = "Bangkok"
          /\ gpOptions[i + 1].destinationName = "Bangkok"
          /\ gpOptions[i].destination # gpOptions[i + 1].destination
    /\ gpOptions[1].edgePointsRequired < gpOptions[10].edgePointsRequired

----------------------------------------------------------------------------
(* Properties of the budget round trip, checked under SpecFlowA *)

\* C27: for a known card and whole, non-negative points, no option needs
\* more points than the request has: edgePointsRequired <= edgePoints.
C27_RequiredWithinPoints ==
    LET points == ToNumber(faBody.edgePoints)
    IN (/\ faBody.cardDisplayName \in DOMAIN CARD_MULTIPLIER
        /\ IsFinite(points)
        /\ points.num >= 0) =>
          \A i \in 1..Len(faOptions) : faOptions[i].edgePointsRequired <= points.num

\* 7 points are 2.8 miles, floored to 2; the option that costs 2 miles needs
\* 5 points, and an available record costing more was left out
C27_Witness ==
    /\ faPc = "done" /\ faStatus = 200
    /\ faBody.edgePoints = Num(7)
    /\ faPartnerMiles = Num(2)
    /\ \E i \in 1..Len(faOptions) :
          faOptions[i].mileageCost = 2 /\ faOptions[i].edgePointsRequired = 5
    /\ \E j \in 1..Len(faResults) :
          /\ KnownSource(faResults[j])
          /\ AvailOf(faResults[j], faBody.cabin) = "true"
          /\ IsFinite(ToNumber(RawMilesOf(faResults[j], faBody.cabin)))
          /\ ToNumber(RawMilesOf(faResults[j], faBody.cabin)).num > 2

----------------------------------------------------------------------------
(* Properties of the pair's recorded cabin, checked under SpecPairs *)

\* C30: the outbound record of every selected pair is available in the
\* cabin recorded for the pair, the cabin later used to pick the outbound
\* itinerary.
C30_OutboundOffersPairCabin ==
    \A i \in 1..Len(dpPairs) :
        getCabinAvailability(dpPairs[i].outboundItem)[dpPairs[i].chosenCabin]

----------------------------------------------------------------------------
(* Properties of the summary caches over a process lifetime, checked under
   SpecSummary *)

\* C28: a cache entry, once stored, is never replaced, and every finished
\* call of a key has returned the value stored for that key, the fallback
\* included: no step changes a stored entry, and after every step each
\* finished call's result is its key's entry.
C28_CacheWriteOnce ==
    [][/\ \A k \in CacheKeys :
             summaryCache[k] # Absent => summaryCache'[k] = summaryCache[k]
       /\ \A c \in 1..Len(calls') :
             calls'[c].state = "done" =>
                /\ summaryCache'[calls'[c].key] # Absent
                /\ calls'[c].result = summaryCache'[calls'[c].key]]_vars

\* the upstream call of a key failed; its first caller, a caller that was
\* handed the in-flight task and a later caller served from the cache have
\* all returned the fallback
C28_Witness ==
    /\ hasClient
    /\ Len(calls) = 3
    /\ \A c \in 1..3 : calls[c].key = calls[1].key /\ calls[c].state = "done"
                       /\ calls[c].result = DEFAULT_SUMMARY
    /\ calls[1].owner /\ tasks[calls[1].task].failed
    /\ calls[2].task = calls[1].task /\ ~calls[2].owner
    /\ calls[3].task = 0
    /\ summaryCache[calls[1].key] = DEFAULT_SUMMARY

----------------------------------------------------------------------------
(* Properties of the date-pairs modal, checked under SpecDates *)

\* C25: while the modal is open for one destination and one set of cards,
\* at most one /api/trip-summary request is issued for each nights value of
\* the cards.
C25_OneFetchPerNights ==
    uiOpen => \A n \in UiNights : msIssued[n] <= 1

\* C26: every summary the modal holds was fetched for the destination it
\* now shows, also when the fetch completes after the destination changed.
C26_SummariesOfCurrentDestination ==
    \A n \in UiNights : msSummaries[n] \in {"", uiDest}

\* C29: when exact dates were asked for one destination and then for
\* another, once every request has been answered the cards and the error in
\* the modal are those of the answer to the most recent request, whatever
\* the order in which the answers arrived.
C29_LatestRequestShown ==
    (/\ uiReqs # <<>>
     /\ \A r \in 1..Len(uiReqs) : uiReqs[r].status # "pending"
     /\ \A r \in 1..(Len(uiReqs) - 1) : uiReqs[r].dest # uiDest)
    => LET last == Len(uiReqs)
           answer == uiReqs[last].status
       IN IF answer \in {"cards3", "cards35"}
          THEN /\ uiCards.req = last
               /\ uiCards.nights = (IF answer = "cards3" THEN {3} ELSE {3, 5})
               /\ uiError = 0
          ELSE uiCards = NoCards /\ uiError = last

============================================================================
